---- MODULE Spec2Model ----
(***************************************************************************)
(* PassioGo rider front end: the route-geometry helpers (routes.tsx), the  *)
(* pre-board tracking screen (TrackingPreBoardScreen) with its initial     *)
(* load and its 5 s poll, and the nearest-vehicle computation of the       *)
(* shuttle-selection screen.                                               *)
(*                                                                         *)
(* Coordinates.  A point is <<lon, lat>> as in the source.  Every point    *)
(* of the model lies on one meridian (lon = 0) and has an integer          *)
(* latitude, counted in steps of MetersPerUnit metres of arc.  On a        *)
(* meridian dLon = 0, so haversineDistance is exactly R * |dLat|, and the  *)
(* planar projection of projectOnSegment is exact in integers; the         *)
(* parameter t is kept as the exact fraction <<num, den>>.  Polylines may  *)
(* run back and forth along the meridian and may repeat a vertex.          *)
(***************************************************************************)
EXTENDS Integers, Sequences, FiniteSets, TLC

\* ------------------------------------------------------------- bounds ---
MaxLat == 2          \* latitudes are 0..MaxLat
MaxVehicleId == 2    \* vehicle ids are 1..MaxVehicleId
MaxFeedLen == 2      \* a vehicle feed lists at most this many vehicles
MaxLineLen == 3      \* a route polyline has at most this many points
MaxInFlight == 1     \* poll callbacks awaiting a response at once (Spec)
MaxOverlap == 2      \* the same, where ticks may overtake each other (SpecOverlap)
MaxRouteChanges == 1 \* times shuttle.route_id changes while mounted
MaxCandidates == 3   \* vehicles handed to a selection loop (SpecSelect)
NowSec == 600        \* Math.floor(Date.now() / 1000) when an ETA is computed
MaxSeq == 2          \* stop_sequence values are 0..MaxSeq (SpecTimeline)
MaxTimelineLen == 3  \* a trip timeline has at most this many stops (SpecTimeline)
MaxRoutes == 2       \* /api/routes-between lists at most this many routes (SpecOptions)
MaxStops == 3        \* /api/all-stops lists this many stops (SpecWelcome)

\* ---------------------------------------------------------- constants ---
MetersPerUnit == 162        \* R * (one latitude step in radians), in metres
AvgSpeedDecimetersPerSec == 54   \* AVG_SPEED_MPS = 5.4

\* absent values, of the same kind as the values they stand in for
Infinity == -1              \* the JavaScript Infinity of bestDist / bestD
NoEta == -1                 \* etaMinutes === null
NoSeq == -1                 \* current_stop_sequence === null
NoArrival == 0              \* routeEta?.arrival_time is falsy
Failed == -1                \* the request threw or answered !ok

Lats == 0..MaxLat
Pt(lat) == <<0, lat>>
Points == {Pt(lat) : lat \in Lats}

Abs(x) == IF x < 0 THEN -x ELSE x
Max(a, b) == IF a >= b THEN a ELSE b
Min(a, b) == IF a <= b THEN a ELSE b

\* Math.round(n / d) for d > 0: the nearest integer, halves towards +Infinity
Round(n, d) == (2 * n + d) \div (2 * d)

\* d < best, where best may be Infinity
LessThan(d, best) == best = Infinity \/ d < best

\* --------------------------------------------------- routes.tsx (geo) ---
\* On a meridian s2 = sin(dLon / 2) = 0 and the result is R * |dLat|.
haversineDistance(a, b) == Abs(b[2] - a[2]) * MetersPerUnit

\* t as a fraction <<num, den>>, den > 0
TLeq(s, t) == s[1] * t[2] <= t[1] * s[2]
TEq(s, t) == s[1] * t[2] = t[1] * s[2]
TLess(s, t) == s[1] * t[2] < t[1] * s[2]

\* (mutant) t is not clamped to [0, 1]
projectOnSegmentUnclamped(p, a, b) ==
  LET dx == b[1] - a[1]
      dy == b[2] - a[2]
      den == dx * dx + dy * dy
      dot == (p[1] - a[1]) * dx + (p[2] - a[2]) * dy
  IN IF dx = 0 /\ dy = 0
       THEN [point |-> <<a[1], a[2]>>, t |-> <<0, 1>>]
       ELSE [point |-> <<a[1] + (dot * dx) \div den, a[2] + (dot * dy) \div den>>,
             t |-> <<dot, den>>]

projectOnSegment(p, a, b) ==
  LET dx == b[1] - a[1]
      dy == b[2] - a[2]
      den == dx * dx + dy * dy
      dot == (p[1] - a[1]) * dx + (p[2] - a[2]) * dy
      num == Max(0, Min(den, dot))
  IN IF dx = 0 /\ dy = 0
       THEN [point |-> <<a[1], a[2]>>, t |-> <<0, 1>>]
       ELSE [point |-> <<a[1] + (num * dx) \div den, a[2] + (num * dy) \div den>>,
             t |-> <<num, den>>]

\* (mutant) d <= bestDist: the last of several nearest segments wins
RECURSIVE nearestLoopLastWins(_, _, _, _)
nearestLoopLastWins(line, point, i, best) ==
  IF i >= Len(line)
    THEN best
    ELSE LET pr == projectOnSegment(point, line[i], line[i + 1])
             d == haversineDistance(point, pr.point)
         IN nearestLoopLastWins(line, point, i + 1,
              IF best.dist = Infinity \/ d <= best.dist
                THEN [segIndex |-> i, projPoint |-> pr.point, dist |-> d, t |-> pr.t]
                ELSE best)

RECURSIVE nearestLoop(_, _, _, _)
nearestLoop(line, point, i, best) ==
  IF i >= Len(line)
    THEN best
    ELSE LET pr == projectOnSegment(point, line[i], line[i + 1])
             d == haversineDistance(point, pr.point)
         IN nearestLoop(line, point, i + 1,
              IF LessThan(d, best.dist)
                THEN [segIndex |-> i, projPoint |-> pr.point, dist |-> d, t |-> pr.t]
                ELSE best)

\* line[0] of an empty array
Undefined == <<0, -1>>

\* segIndex is the 1-based index of the segment's start vertex in the model
\* (the source's 0-based index plus one).  On a polyline of fewer than 2
\* points the loop body never runs and the initial values are returned.
nearestPointOnLine(line, point) ==
  nearestLoop(line, point, 1,
    [segIndex |-> 1, projPoint |-> IF Len(line) > 0 THEN line[1] ELSE Undefined,
     dist |-> Infinity, t |-> <<0, 1>>])

\* (mutant) if (fromIdx >= toIdx) return []
clipLineSegmentGe(line, fromIdx, fromPoint, toIdx, toPoint) ==
  IF fromIdx >= toIdx
    THEN <<>>
    ELSE <<fromPoint>> \o [k \in 1..(toIdx - fromIdx) |-> line[fromIdx + k]] \o <<toPoint>>

\* (mutant) the loop starts at i = fromIdx
clipLineSegmentFromIdx(line, fromIdx, fromPoint, toIdx, toPoint) ==
  IF fromIdx > toIdx
    THEN <<>>
    ELSE <<fromPoint>> \o [k \in 1..(toIdx - fromIdx + 1) |-> line[fromIdx + k - 1]]
         \o <<toPoint>>

clipLineSegment(line, fromIdx, fromPoint, toIdx, toPoint) ==
  IF fromIdx > toIdx
    THEN <<>>
    ELSE <<fromPoint>> \o [k \in 1..(toIdx - fromIdx) |-> line[fromIdx + k]] \o <<toPoint>>

RECURSIVE lineLengthFrom(_, _)
lineLengthFrom(coords, i) ==
  IF i >= Len(coords)
    THEN 0
    ELSE haversineDistance(coords[i], coords[i + 1]) + lineLengthFrom(coords, i + 1)

lineLength(coords) == lineLengthFrom(coords, 1)

\* ------------------------------------------------------------ inputs ---
Vehicles == [id : 1..MaxVehicleId, pos : Points, seq : {NoSeq}]
NoVehicle == [id |-> 0, pos |-> Pt(0), seq |-> NoSeq]      \* vehicle === null
\* the stop at latitude k has id k
Stops == {[id |-> k, pos |-> Pt(k)] : k \in Lats}
NoStop == [id |-> -1, pos |-> Pt(0)]                        \* oStop undefined

SeqsUpTo(S, n) == UNION {[1..k -> S] : k \in 0..n}

\* what /api/vehicles can answer: vehicles with pairwise distinct ids
Feeds == {f \in SeqsUpTo(Vehicles, MaxFeedLen) :
            \A i, j \in 1..Len(f) : f[i].id = f[j].id => i = j}

\* the vehicle lists of SpecSelect: the k-th vehicle has id k
Candidates == {[k \in 1..Len(ps) |-> [id |-> k, pos |-> ps[k], seq |-> NoSeq]] :
                 ps \in SeqsUpTo(Points, MaxCandidates)}

\* every polyline along the meridian
Polylines == SeqsUpTo(Points, MaxLineLen)

\* what route_geojson holds for a tracked route: nothing, or the line
\* through every latitude in turn
FullLine == [k \in 1..(MaxLat + 1) |-> Pt(k - 1)]
RouteShapes == {<<>>, FullLine}

\* arrival_time values of the ETA feed for the tracked route (unix seconds)
Arrivals == {NowSec - 90, NowSec + 150}

\* ------------------------------- GetOffReminderScreen.tsx: selection ---
\* (mutant) a vehicle level with the origin counts as having passed it
EligibleStrict(vProj, originProj) ==
  \/ vProj.segIndex < originProj.segIndex
  \/ vProj.segIndex = originProj.segIndex /\ TLess(vProj.t, originProj.t)

\* vProj is not ahead of originProj under (segIndex, then t)
Eligible(vProj, originProj) ==
  \/ vProj.segIndex < originProj.segIndex
  \/ vProj.segIndex = originProj.segIndex /\ TLeq(vProj.t, originProj.t)

TrailDist(coords, vProj, originProj) ==
  lineLength(clipLineSegment(coords, vProj.segIndex, vProj.projPoint,
                             originProj.segIndex, originProj.projPoint))

\* (mutant) dist <= bestDist: the last of several nearest vehicles wins
RECURSIVE loadSelectLoopLastWins(_, _, _, _, _)
loadSelectLoopLastWins(coords, originProj, vehicles, i, acc) ==
  IF i > Len(vehicles)
    THEN acc
    ELSE LET v == vehicles[i]
             vProj == nearestPointOnLine(coords, v.pos)
             dist == TrailDist(coords, vProj, originProj)
         IN loadSelectLoopLastWins(coords, originProj, vehicles, i + 1,
              IF /\ Eligible(vProj, originProj)
                 /\ (acc.bestDist = Infinity \/ dist <= acc.bestDist)
                THEN [bestVehicle |-> v, bestDist |-> dist]
                ELSE acc)

\* loadData: for (const v of vehicles) { ... bestDist / bestVehicle ... }
RECURSIVE loadSelectLoop(_, _, _, _, _)
loadSelectLoop(coords, originProj, vehicles, i, acc) ==
  IF i > Len(vehicles)
    THEN acc
    ELSE LET v == vehicles[i]
             vProj == nearestPointOnLine(coords, v.pos)
             dist == TrailDist(coords, vProj, originProj)
         IN loadSelectLoop(coords, originProj, vehicles, i + 1,
              IF Eligible(vProj, originProj) /\ LessThan(dist, acc.bestDist)
                THEN [bestVehicle |-> v, bestDist |-> dist]
                ELSE acc)

\* (mutant) if (oStop) { ... }
loadProjectsAnyLength(coords, oStop) == oStop # NoStop

\* if (oStop && coords.length >= 2) { ... nearestPointOnLine(coords, ...) }
loadProjects(coords, oStop) == oStop # NoStop /\ Len(coords) >= 2

loadSelect(coords, oStop, vehicles) ==
  IF loadProjects(coords, oStop)
    THEN loadSelectLoop(coords, nearestPointOnLine(coords, oStop.pos), vehicles, 1,
                        [bestVehicle |-> NoVehicle, bestDist |-> Infinity])
    ELSE [bestVehicle |-> NoVehicle, bestDist |-> Infinity]

\* (mutant) no fallback to the first vehicle
loadTrackedNoFallback(sel, vehicles) == sel.bestVehicle

\* if (!bestVehicle && vehicles.length > 0) bestVehicle = vehicles[0]: what
\* setVehicle is called with
loadTracked(sel, vehicles) ==
  IF sel.bestVehicle = NoVehicle /\ Len(vehicles) > 0
    THEN vehicles[1]
    ELSE sel.bestVehicle

\* poll tick: for (const v of vehicles) { ... bestD / best ... }
RECURSIVE pollSelectLoop(_, _, _, _, _)
pollSelectLoop(coords, originProj, vehicles, i, acc) ==
  IF i > Len(vehicles)
    THEN acc
    ELSE LET v == vehicles[i]
             vProj == nearestPointOnLine(coords, v.pos)
             d == TrailDist(coords, vProj, originProj)
         IN pollSelectLoop(coords, originProj, vehicles, i + 1,
              IF Eligible(vProj, originProj) /\ LessThan(d, acc.bestD)
                THEN [best |-> v, bestD |-> d]
                ELSE acc)

pollSelect(coords, stop, vehicles) ==
  pollSelectLoop(coords, nearestPointOnLine(coords, stop.pos), vehicles, 1,
                 [best |-> NoVehicle, bestD |-> Infinity])

\* else if (vehicles.length > 0 && coords.length >= 2) { ... }: the vehicle
\* left in best, or NoVehicle
pollProjects(coords, vehicles) == Len(vehicles) > 0 /\ Len(coords) >= 2

pollReselect(coords, stop, vehicles) ==
  IF pollProjects(coords, vehicles)
    THEN pollSelect(coords, stop, vehicles).best
    ELSE NoVehicle

\* ------------------- WelcomeScreen.tsx: ShuttleSelectionScreen ---
\* nearestByRoute, for one option: for (const v of opt.vehicles) { ... }
RECURSIVE nearestByRouteLoop(_, _, _, _, _)
nearestByRouteLoop(routeCoords, originProj, vehicles, i, acc) ==
  IF i > Len(vehicles)
    THEN acc
    ELSE LET v == vehicles[i]
             vProj == nearestPointOnLine(routeCoords, v.pos)
             passed == \/ vProj.segIndex > originProj.segIndex
                       \/ /\ vProj.segIndex = originProj.segIndex
                          /\ TLess(originProj.t, vProj.t)
             coords == clipLineSegment(routeCoords, vProj.segIndex, vProj.projPoint,
                                       originProj.segIndex, originProj.projPoint)
             dist == lineLength(coords)
         IN nearestByRouteLoop(routeCoords, originProj, vehicles, i + 1,
              IF ~passed /\ Len(coords) >= 2 /\ LessThan(dist, acc.bestDist)
                THEN [bestVehicle |-> v, bestDist |-> dist, bestTrail |-> coords]
                ELSE acc)

\* if (!originStop) return []; if (opt.routeCoords.length < 2) continue;
nearestByRouteProjects(routeCoords, stop) == ~(stop = NoStop \/ Len(routeCoords) < 2)

\* the vehicle of the entry pushed to results for the option, or NoVehicle
nearestByRoute(routeCoords, stop, vehicles) ==
  IF ~nearestByRouteProjects(routeCoords, stop)
    THEN NoVehicle
    ELSE LET r == nearestByRouteLoop(routeCoords,
                    nearestPointOnLine(routeCoords, stop.pos), vehicles, 1,
                    [bestVehicle |-> NoVehicle, bestDist |-> Infinity, bestTrail |-> <<>>])
         IN IF r.bestVehicle # NoVehicle /\ Len(r.bestTrail) >= 2
              THEN r.bestVehicle
              ELSE NoVehicle

\* vehicles.find((v) => v.id === vehicle.id)
RECURSIVE findById(_, _, _)
findById(vehicles, id, i) ==
  IF i > Len(vehicles) THEN NoVehicle
  ELSE IF vehicles[i].id = id THEN vehicles[i]
  ELSE findById(vehicles, id, i + 1)

\* (mutant) Math.floor for Math.round
authoritativeEtaFloor(arrival, now) == Max(0, (arrival - now) \div 60)

\* Math.max(0, Math.round((arrival_time - now) / 60))
authoritativeEta(arrival, now) == Max(0, Round(arrival - now, 60))

\* (mutant) the estimate without its floor of 1
fallbackEtaNoFloor(dist) == Round(dist * 10, AvgSpeedDecimetersPerSec * 60)

\* Math.max(1, Math.round(bestDist / AVG_SPEED_MPS / 60))
fallbackEta(dist) == Max(1, Round(dist * 10, AvgSpeedDecimetersPerSec * 60))

\* (mutant) the catch of the ETA block does nothing
loadEtaEmptyCatch(arrival, bestDist, cur) ==
  IF arrival = Failed
    THEN cur
  ELSE IF arrival # NoArrival
    THEN authoritativeEta(arrival, NowSec)
  ELSE IF bestDist # Infinity
    THEN fallbackEta(bestDist)
  ELSE cur

\* (mutant) the estimate is shown without the test bestDist < Infinity
loadEtaUntested(arrival, bestDist, cur) ==
  IF arrival # Failed /\ arrival # NoArrival
    THEN authoritativeEta(arrival, NowSec)
    ELSE fallbackEta(Max(0, bestDist))

\* loadData, "Fetch ETA": what setEtaMinutes is called with, or cur when it
\* is not called (arrival = Failed: the fetch threw or answered !ok)
loadEta(arrival, bestDist, cur) ==
  IF arrival = Failed
    THEN IF bestDist # Infinity THEN fallbackEta(bestDist) ELSE cur
  ELSE IF arrival # NoArrival
    THEN authoritativeEta(arrival, NowSec)
  ELSE IF bestDist # Infinity
    THEN fallbackEta(bestDist)
  ELSE cur

\* poll tick, "Refresh ETA": what setEtaMinutes is called with, or cur
tickEta(arrival, cur) ==
  IF arrival # Failed /\ arrival # NoArrival
    THEN authoritativeEta(arrival, NowSec)
    ELSE cur

\* ShuttleSelectionScreen loadData: for (const v of vehicles) { ...
\* etaMinutes = Math.min(etaMinutes, estMin) }
RECURSIVE optionEstimateLoop(_, _, _, _, _)
optionEstimateLoop(routeCoords, originProj, vehicles, i, etaMin) ==
  IF i > Len(vehicles)
    THEN etaMin
    ELSE LET vProj == nearestPointOnLine(routeCoords, vehicles[i].pos)
             estMin == fallbackEta(TrailDist(routeCoords, vProj, originProj))
         IN optionEstimateLoop(routeCoords, originProj, vehicles, i + 1,
              IF Eligible(vProj, originProj)
                THEN IF etaMin = Infinity THEN estMin ELSE Min(etaMin, estMin)
                ELSE etaMin)

\* ShuttleSelectionScreen loadData: the option's ETA from the feed
optionRealEta(oStop, arrival) ==
  IF oStop # NoStop /\ arrival # Failed /\ arrival # NoArrival
    THEN authoritativeEta(arrival, NowSec)
    ELSE Infinity

\* if (etaMinutes === Infinity && oStop && routeCoords.length >= 2 &&
\*     vehicles.length > 0) { ... nearestPointOnLine(routeCoords, ...) }
optionProjects(routeCoords, oStop, vehicles, arrival) ==
  /\ optionRealEta(oStop, arrival) = Infinity
  /\ oStop # NoStop
  /\ Len(routeCoords) >= 2
  /\ Len(vehicles) > 0

\* ShuttleSelectionScreen loadData: etaMinutes of one option (Infinity: none)
optionEta(routeCoords, oStop, vehicles, arrival) ==
  LET real == optionRealEta(oStop, arrival)
  IN IF optionProjects(routeCoords, oStop, vehicles, arrival)
       THEN optionEstimateLoop(routeCoords, nearestPointOnLine(routeCoords, oStop.pos),
                               vehicles, 1, Infinity)
       ELSE real

\* TrackingPreBoardScreen: const trail = useMemo(...); NoTrail is null
NoTrail == <<>>

\* (mutant) the trail is clipped without comparing the projections
trailUnguarded(v, o, coords) ==
  IF v = NoVehicle \/ o = NoStop \/ Len(coords) < 2
    THEN NoTrail
    ELSE LET originProj == nearestPointOnLine(coords, o.pos)
             vProj == nearestPointOnLine(coords, v.pos)
             clipped == clipLineSegment(coords, vProj.segIndex, vProj.projPoint,
                                        originProj.segIndex, originProj.projPoint)
         IN IF Len(clipped) >= 2 THEN clipped ELSE NoTrail

\* if (!vehicle || !originStop || routeCoords.length < 2) return null
trailProjects(v, o, coords) == ~(v = NoVehicle \/ o = NoStop \/ Len(coords) < 2)

trail(v, o, coords) ==
  IF ~trailProjects(v, o, coords)
    THEN NoTrail
    ELSE LET originProj == nearestPointOnLine(coords, o.pos)
             vProj == nearestPointOnLine(coords, v.pos)
             clipped == clipLineSegment(coords, vProj.segIndex, vProj.projPoint,
                                        originProj.segIndex, originProj.projPoint)
         IN IF \/ vProj.segIndex > originProj.segIndex
               \/ vProj.segIndex = originProj.segIndex /\ TLess(originProj.t, vProj.t)
              THEN NoTrail
            ELSE IF Len(clipped) >= 2 THEN clipped
            ELSE NoTrail

\* (mutant) s.stop_sequence > vehicleSeq
RECURSIVE timelineFilterStrict(_, _)
timelineFilterStrict(tl, vehicleSeq) ==
  IF tl = <<>>
    THEN <<>>
    ELSE (IF Head(tl) > vehicleSeq THEN <<Head(tl)>> ELSE <<>>)
         \o timelineFilterStrict(Tail(tl), vehicleSeq)

\* timeline.filter((s) => s.stop_sequence >= vehicleSeq); a stop of the
\* timeline is given by its stop_sequence
RECURSIVE timelineFilter(_, _)
timelineFilter(tl, vehicleSeq) ==
  IF tl = <<>>
    THEN <<>>
    ELSE (IF Head(tl) >= vehicleSeq THEN <<Head(tl)>> ELSE <<>>)
         \o timelineFilter(Tail(tl), vehicleSeq)

\* TrackingPreBoardScreen: const visibleTimeline = useMemo(...)
visibleTimeline(tl, v) ==
  IF Len(tl) = 0 \/ v = NoVehicle THEN tl
  ELSE IF v.seq = NoSeq THEN tl
  ELSE timelineFilter(tl, v.seq)

\* what /api/trip-timeline can answer: stops, given by their stop_sequence
TimelineFeeds == {<<>>, <<1, 2>>}

\* ------------------------------------ TrackingPreBoardScreen: state ---
VARIABLES
  mounted,       \* the screen is mounted
  routeChanges,  \* times shuttle.route_id has changed so far
  vehicle,       \* useState: the tracked vehicle, or NoVehicle
  routeCoords,   \* useState: the route polyline (routeCoordsRef.current)
  originStop,    \* useState: the origin stop, or NoStop
  etaMinutes,    \* useState: minutes, or NoEta
  timeline,      \* useState: the trip timeline
  loading,       \* useState
  load,          \* the loadData call of the current load effect
  zombies,       \* loadData calls whose signal was aborted, not yet settled
  timers,        \* live setInterval timers, each with its callback's closure
  effect,        \* handle of the timer the current poll effect created
  ticks,         \* poll callbacks waiting for a response, oldest first
  lastEvent,     \* the step just taken and what the network answered
  selIn,         \* SpecSelect: the arguments of the selection loops
  selOut,        \* SpecSelect: what each selection loop selected
  geoIn,         \* SpecGeo: the arguments of the geometry helpers
  geoOut,        \* SpecGeo: what the geometry helpers returned
  tlIn,          \* SpecTimeline: the timeline and the tracked vehicle
  tlOut,         \* SpecTimeline: the visible timeline
  shuttleOptions,  \* ShuttleSelectionScreen useState: the listed options
  optionsLoad,     \* ShuttleSelectionScreen: its loadData call
  optionsInterval, \* ShuttleSelectionScreen: the poll timer is set
  optionsTicks,    \* ShuttleSelectionScreen: poll callbacks awaiting their responses
  stops,           \* WelcomeScreen useState: the stops on the map
  stopsFetch,      \* WelcomeScreen: fetch /api/all-stops is pending
  origin,          \* WelcomeScreen useState: the origin's name, or NoName
  destination,     \* WelcomeScreen useState: the destination's name, or NoName
  selectionMode,   \* WelcomeScreen useState: "origin" or "destination"
  reachableStopIds,      \* WelcomeScreen useState
  showUnreachablePopup,  \* WelcomeScreen useState
  unreachableStopName,   \* WelcomeScreen useState
  checks,          \* WelcomeScreen: checkReachability calls not yet settled
  reachableOrigin  \* history: the origin of the check that set reachableStopIds

screenVars == <<mounted, routeChanges, vehicle, routeCoords, originStop, etaMinutes,
                timeline, loading, load, zombies, timers, effect, ticks, lastEvent>>
selectionVars == <<shuttleOptions, optionsLoad, optionsInterval, optionsTicks>>
welcomeVars == <<stops, stopsFetch, origin, destination, selectionMode, reachableStopIds,
                 showUnreachablePopup, unreachableStopName, checks, reachableOrigin>>
otherScreens == <<selectionVars, welcomeVars>>
\* what no step of the tracking screen changes
pureVars == <<selIn, selOut, geoIn, geoOut, tlIn, tlOut, otherScreens>>
vars == <<screenVars, pureVars>>

NoHandle == -1

\* lastEvent: the step, whether its request succeeded, whether the ETA feed
\* had an arrival time, whether the callback's vehicle id was in the fresh
\* list (same), whether the re-selection loop found a vehicle (picked),
\* whether the polyline had changed since the callback's timer was created
\* (moved), and, for a step of a poll callback, whether a later tick had
\* already started (stale) and whether its effect had been cleaned up while
\* it waited (torn)
Event(kind) ==
  [kind |-> kind, ok |-> TRUE, hasArrival |-> FALSE, same |-> FALSE,
   picked |-> FALSE, moved |-> FALSE, stale |-> FALSE, torn |-> FALSE,
   handle |-> NoHandle]

\* a loadData call: where it waits, and those of its locals that it still
\* reads (bestVehicle only for bestVehicle?.trip_id; bestDist only up to the
\* ETA step; oStop is set whenever it waits for the ETA)
StartLoad == [pc |-> "routeVehicles", hasBestVehicle |-> FALSE, bestDist |-> Infinity]
DoneLoad == [StartLoad EXCEPT !.pc = "done"]

\* a state setter; React drops updates of an unmounted component
setState(cur, new) == IF mounted THEN new ELSE cur

RemoveAt(s, i) == SubSeq(s, 1, i - 1) \o SubSeq(s, i + 1, Len(s))

NoSelIn == [line |-> <<>>, stop |-> NoStop, vehicles |-> <<>>, arrival |-> NoArrival]
NoSelOut == [done |-> FALSE, load |-> NoVehicle, poll |-> NoVehicle,
             nearest |-> NoVehicle, loadEta |-> NoEta, tickEta |-> NoEta,
             optionEta |-> Infinity, tracked |-> NoVehicle, trail |-> NoTrail,
             projected |-> {}]

NoProjection == [segIndex |-> 1, projPoint |-> Pt(0), dist |-> Infinity, t |-> <<0, 1>>]
NoGeoIn == [line |-> <<>>, p |-> Pt(0), q |-> Pt(0), fromIdx |-> 1, toIdx |-> 1]
NoGeoOut == [done |-> FALSE, seg |-> [point |-> Pt(0), t |-> <<0, 1>>],
             nearP |-> NoProjection, nearQ |-> NoProjection, clip |-> <<>>,
             projClip |-> <<>>, clipLength |-> 0, fullLength |-> 0, trail |-> NoTrail]
NoTlIn == [timeline |-> <<>>, vehicle |-> NoVehicle]
NoTlOut == [done |-> FALSE, visible |-> <<>>]

InitScreen ==
  /\ mounted = TRUE
  /\ routeChanges = 0
  /\ vehicle = NoVehicle
  /\ routeCoords = <<>>
  /\ originStop = NoStop
  /\ etaMinutes = NoEta
  /\ timeline = <<>>
  /\ loading = TRUE
  /\ load = StartLoad
  /\ zombies = {}
  /\ timers = {}
  /\ effect = NoHandle
  /\ ticks = <<>>
  /\ lastEvent = Event("mount")

\* ShuttleSelectionScreen as constructed: no options, loadData awaiting
\* /api/routes-between, no poll timer
InitSelection ==
  /\ shuttleOptions = <<>>
  /\ optionsLoad = [pc |-> "routesBetween", routes |-> 0]
  /\ optionsInterval = FALSE
  /\ optionsTicks = <<>>

\* the empty string of origin, destination and unreachableStopName
NoName == 0

\* WelcomeScreen as constructed with nothing restored: no stops yet, no
\* origin, no destination, origin selection
NoWelcome ==
  /\ stops = <<>>
  /\ stopsFetch = TRUE
  /\ origin = NoName
  /\ destination = NoName
  /\ selectionMode = "origin"
  /\ reachableStopIds = {}
  /\ showUnreachablePopup = FALSE
  /\ unreachableStopName = NoName
  /\ checks = {}
  /\ reachableOrigin = NoName

NoGeo == geoIn = NoGeoIn /\ geoOut = NoGeoOut
NoTl == tlIn = NoTlIn /\ tlOut = NoTlOut

Init ==
  /\ InitScreen
  /\ InitSelection
  /\ NoWelcome
  /\ selIn = NoSelIn
  /\ selOut = NoSelOut
  /\ NoGeo
  /\ NoTl

\* ------------------------------------------------- the poll effect ---
\* (mutant) the cleanup leaves the timer running
clearIntervalLeak(ts, h) == ts

\* return () => clearInterval(interval)
clearInterval(ts, h) == {t \in ts : t.handle # h}

\* (mutant) if (!originStop) return
pollRunsWithoutVehicle(v, o) == o # NoStop

\* if (!vehicle || !originStop) return: the effect goes on to setInterval
pollRuns(v, o) == ~(v = NoVehicle \/ o = NoStop)

\* React re-runs the poll effect after a render in which one of its
\* dependencies [vehicle?.id, originStop, shuttle.name, shuttle.route_id]
\* changed: the previous run's cleanup, then the body with the values of
\* that render (v, o, c).
PollEffect(depsChanged, v, o, c) ==
  LET cleaned == IF effect = NoHandle THEN timers ELSE clearInterval(timers, effect)
      run == pollRuns(v, o)
      handle == IF effect = 0 THEN 1 ELSE 0
  IN IF ~depsChanged
       THEN [timers |-> timers, effect |-> effect]
       ELSE [timers |-> IF run
                          THEN cleaned \cup {[handle |-> handle, vid |-> v.id,
                                              origin |-> o, coords |-> c]}
                          ELSE cleaned,
             effect |-> IF run THEN handle ELSE NoHandle]

\* the callbacks waiting for a response when the effect is cleaned up
\* belong to a torn-down effect from then on
MarkTorn(depsChanged, ts) ==
  IF depsChanged THEN [k \in 1..Len(ts) |-> [ts[k] EXCEPT !.torn = TRUE]] ELSE ts

\* ------------------------------------------------- loadData (load) ---
\* Promise.all([fetch /api/route, fetch /api/vehicles]) settles: on failure
\* the outer catch and finally run; otherwise everything up to the next
\* await, i.e. setRouteCoords, setOriginStop, the selection loop, the
\* first-vehicle fallback and setVehicle.
LoadRouteVehicles(ok, coords, oStop, vehicles) ==
  /\ load.pc = "routeVehicles"
  /\ lastEvent' = [Event("loadRouteVehicles") EXCEPT !.ok = ok]
  /\ UNCHANGED <<pureVars, mounted, routeChanges, etaMinutes, timeline, zombies>>
  /\ IF ~ok
       THEN /\ load' = DoneLoad
            /\ loading' = setState(loading, FALSE)
            /\ UNCHANGED <<vehicle, routeCoords, originStop, timers, effect, ticks>>
       ELSE LET sel == loadSelect(coords, oStop, vehicles)
                bestVehicle == loadTracked(sel, vehicles)
                pc == IF oStop # NoStop THEN "eta"
                      ELSE IF bestVehicle # NoVehicle THEN "timeline"
                      ELSE "done"
                newOrigin == IF oStop # NoStop THEN setState(originStop, oStop)
                             ELSE originStop
                newVehicle == setState(vehicle, bestVehicle)
                newCoords == setState(routeCoords, coords)
                depsChanged == newVehicle.id # vehicle.id \/ oStop # NoStop
                pe == PollEffect(depsChanged, newVehicle, newOrigin, newCoords)
            IN /\ routeCoords' = newCoords
               /\ originStop' = newOrigin
               /\ vehicle' = newVehicle
               /\ load' = IF pc = "eta"
                            THEN [pc |-> pc, hasBestVehicle |-> bestVehicle # NoVehicle,
                                  bestDist |-> sel.bestDist]
                          ELSE [StartLoad EXCEPT !.pc = pc]
               /\ loading' = IF pc = "done" THEN setState(loading, FALSE) ELSE loading
               /\ timers' = pe.timers
               /\ effect' = pe.effect
               /\ ticks' = MarkTorn(depsChanged, ticks)

\* what is left of loadData after the ETA step
AfterEta(l) == IF l.hasBestVehicle
                 THEN [StartLoad EXCEPT !.pc = "timeline"]
                 ELSE DoneLoad

\* fetch /api/eta settles (arrival = Failed: it threw, or answered !ok)
LoadEta(arrival) ==
  /\ load.pc = "eta"
  /\ lastEvent' = [Event("loadEta") EXCEPT !.ok = (arrival # Failed),
                     !.hasArrival = (arrival \in Arrivals)]
  /\ etaMinutes' = setState(etaMinutes, loadEta(arrival, load.bestDist, etaMinutes))
  /\ load' = AfterEta(load)
  /\ loading' = IF load'.pc = "done" THEN setState(loading, FALSE) ELSE loading
  /\ UNCHANGED <<pureVars, mounted, routeChanges, vehicle, routeCoords, originStop, timeline,
                 zombies, timers, effect, ticks>>

\* fetch /api/trip-timeline settles
LoadTimeline(ok, tlStops) ==
  /\ load.pc = "timeline"
  /\ lastEvent' = [Event("loadTimeline") EXCEPT !.ok = ok]
  /\ timeline' = IF ok THEN setState(timeline, tlStops) ELSE timeline
  /\ load' = DoneLoad
  /\ loading' = setState(loading, FALSE)
  /\ UNCHANGED <<pureVars, mounted, routeChanges, vehicle, routeCoords, originStop, etaMinutes,
                 zombies, timers, effect, ticks>>

\* the pending fetch of a loadData whose signal was aborted rejects with an
\* AbortError.  Awaiting route/vehicles or the timeline it changes nothing;
\* awaiting the ETA, the inner catch runs (and the timeline fetch that
\* follows rejects at once on the aborted signal).
AbortedLoadSettles(z) ==
  /\ z \in zombies
  /\ zombies' = zombies \ {z}
  /\ lastEvent' = [Event("abortedLoad") EXCEPT !.ok = FALSE]
  /\ etaMinutes' = IF z.pc = "eta" /\ z.bestDist # Infinity
                     THEN setState(etaMinutes, fallbackEta(z.bestDist))
                     ELSE etaMinutes
  /\ UNCHANGED <<pureVars, mounted, routeChanges, vehicle, routeCoords, originStop, timeline,
                 loading, load, timers, effect, ticks>>

\* controller.abort() of the load effect's cleanup
Aborted(l) == IF l.pc = "done" THEN zombies ELSE zombies \cup {l}

\* shuttle.route_id changes while the screen stays mounted: both effects
\* are cleaned up and run again
RouteChange ==
  /\ mounted
  /\ routeChanges < MaxRouteChanges
  /\ routeChanges' = routeChanges + 1
  /\ lastEvent' = Event("routeChange")
  /\ zombies' = Aborted(load)
  /\ load' = StartLoad
  /\ LET pe == PollEffect(TRUE, vehicle, originStop, routeCoords)
     IN /\ timers' = pe.timers
        /\ effect' = pe.effect
  /\ ticks' = MarkTorn(TRUE, ticks)
  /\ UNCHANGED <<pureVars, mounted, vehicle, routeCoords, originStop, etaMinutes, timeline, loading>>

\* navigating away: the cleanups of both effects run
Unmount ==
  /\ mounted
  /\ mounted' = FALSE
  /\ lastEvent' = Event("unmount")
  /\ zombies' = Aborted(load)
  /\ load' = DoneLoad
  /\ timers' = IF effect = NoHandle THEN timers ELSE clearInterval(timers, effect)
  /\ effect' = NoHandle
  /\ ticks' = MarkTorn(TRUE, ticks)
  /\ UNCHANGED <<pureVars, routeChanges, vehicle, routeCoords, originStop, etaMinutes, timeline,
                 loading>>

\* ------------------------------------------------------ the poll tick ---
\* a timer fires: the callback starts and awaits fetch /api/vehicles
TickStart(t) ==
  /\ t \in timers
  /\ ticks' = Append([k \in 1..Len(ticks) |-> [ticks[k] EXCEPT !.superseded = TRUE]],
                     [vid |-> t.vid, origin |-> t.origin, coords |-> t.coords,
                      phase |-> "vehicles", superseded |-> FALSE, torn |-> FALSE])
  /\ lastEvent' = [Event("tickStart") EXCEPT !.handle = t.handle]
  /\ UNCHANGED <<pureVars, mounted, routeChanges, vehicle, routeCoords, originStop, etaMinutes,
                 timeline, loading, load, zombies, timers, effect>>

\* (mutant) the routeCoords of the render that created the timer
tickCoordsCaptured(tick) == tick.coords

\* const coords = routeCoordsRef.current
tickCoords(tick) == routeCoords

\* the vehicle the tick passes to setVehicle, or NoVehicle when it calls
\* setVehicle not at all
tickReconcile(tick, vehicles) ==
  LET coords == tickCoords(tick)
      same == findById(vehicles, tick.vid, 1)
  IN IF same # NoVehicle THEN same
     ELSE pollReselect(coords, tick.origin, vehicles)

\* the callback from its second await on reads none of its closure but
\* originStop.id and shuttle.route_id, which the ETA answer stands for
AwaitEta(tick) == [tick EXCEPT !.phase = "eta", !.vid = 0, !.origin = NoStop,
                               !.coords = <<>>]

\* (mutant) if (!res.ok) return is missing
AfterVehiclesGoesOn(tick, ok) == <<AwaitEta(tick)>>

\* what is left of the callback once fetch /api/vehicles has settled:
\* nothing after if (!res.ok) return or a throw, else the ETA refresh
AfterVehicles(tick, ok) == IF ok THEN <<AwaitEta(tick)>> ELSE <<>>

ReplaceAt(s, i, r) == SubSeq(s, 1, i - 1) \o r \o SubSeq(s, i + 1, Len(s))

\* fetch /api/vehicles of tick i settles (ok = FALSE: it threw or !res.ok)
TickVehicles(i, ok, vehicles) ==
  /\ i \in 1..Len(ticks)
  /\ ticks[i].phase = "vehicles"
  /\ lastEvent' = [Event("tickVehicles") EXCEPT
                     !.ok = ok, !.same = (findById(vehicles, ticks[i].vid, 1) # NoVehicle),
                     !.picked = (/\ ok
                                 /\ findById(vehicles, ticks[i].vid, 1) = NoVehicle
                                 /\ tickReconcile(ticks[i], vehicles) # NoVehicle),
                     !.moved = (ticks[i].coords # routeCoords),
                     !.stale = ticks[i].superseded, !.torn = ticks[i].torn]
  /\ UNCHANGED <<pureVars, mounted, routeChanges, routeCoords, originStop, etaMinutes, timeline,
                 loading, load, zombies>>
  /\ IF ~ok
       THEN /\ ticks' = ReplaceAt(ticks, i, AfterVehicles(ticks[i], FALSE))
            /\ UNCHANGED <<vehicle, timers, effect>>
       ELSE LET chosen == tickReconcile(ticks[i], vehicles)
                newVehicle == IF chosen # NoVehicle THEN setState(vehicle, chosen)
                              ELSE vehicle
                depsChanged == newVehicle.id # vehicle.id
                pe == PollEffect(depsChanged, newVehicle, originStop, routeCoords)
            IN /\ vehicle' = newVehicle
               /\ timers' = pe.timers
               /\ effect' = pe.effect
               /\ ticks' = ReplaceAt(MarkTorn(depsChanged, ticks), i,
                                      AfterVehicles(ticks[i], TRUE))

\* fetch /api/eta of tick i settles
TickEta(i, arrival) ==
  /\ i \in 1..Len(ticks)
  /\ ticks[i].phase = "eta"
  /\ lastEvent' = [Event("tickEta") EXCEPT
                     !.ok = (arrival # Failed), !.hasArrival = (arrival \in Arrivals),
                     !.stale = ticks[i].superseded, !.torn = ticks[i].torn]
  /\ etaMinutes' = setState(etaMinutes, tickEta(arrival, etaMinutes))
  /\ ticks' = RemoveAt(ticks, i)
  /\ UNCHANGED <<pureVars, mounted, routeChanges, vehicle, routeCoords, originStop, timeline,
                 loading, load, zombies, timers, effect>>

\* the steps in which a response arrives, where /api/vehicles answers with
\* one of feeds, the origin is one of stops or not found, and the ETA feed
\* has one of arrivals or none
Response(feeds, originStops, arrivals, timelines) ==
  \/ \E ok \in BOOLEAN, coords \in RouteShapes, oStop \in originStops \cup {NoStop},
        vehicles \in feeds :
       /\ ok \/ (coords = <<>> /\ oStop = NoStop /\ vehicles = <<>>)
       /\ LoadRouteVehicles(ok, coords, oStop, vehicles)
  \/ \E arrival \in arrivals \cup {NoArrival, Failed} : LoadEta(arrival)
  \/ \E ok \in BOOLEAN, tl \in timelines :
       /\ ok \/ tl = <<>>
       /\ LoadTimeline(ok, tl)
  \/ \E z \in zombies : AbortedLoadSettles(z)
  \/ \E i \in 1..Len(ticks), ok \in BOOLEAN, vehicles \in feeds :
       /\ ok \/ vehicles = <<>>
       /\ TickVehicles(i, ok, vehicles)
  \/ \E i \in 1..Len(ticks), arrival \in arrivals \cup {NoArrival, Failed} :
       TickEta(i, arrival)

\* Spec: one route from mount to unmount, with at most MaxInFlight poll
\* callbacks awaiting a response
Next ==
  \/ Response(Feeds, Stops, Arrivals, TimelineFeeds)
  \/ Unmount
  \/ \E t \in timers : Len(ticks) < MaxInFlight /\ TickStart(t)

Spec == Init /\ [][Next]_vars

\* SpecOverlap: responses slower than the poll period, so that up to
\* MaxOverlap callbacks await a response and may be answered in any order;
\* the first tick comes after the initial load has finished
NextOverlap ==
  \/ Response(Feeds, Stops, Arrivals, TimelineFeeds)
  \/ Unmount
  \/ \E t \in timers : Len(ticks) < MaxOverlap /\ load.pc = "done" /\ TickStart(t)

SpecOverlap == Init /\ [][NextOverlap]_vars

\* SpecReload: shuttle.route_id changes while the screen stays mounted; each
\* vehicle feed lists at most one vehicle, the origin is the first or the
\* last stop, the ETA feed has no arrival for the route, and the trip
\* timeline is empty
SingleFeeds == {f \in Feeds : Len(f) <= 1}
EndStops == {s \in Stops : s.id \in {0, MaxLat}}

NextReload ==
  \/ Response(SingleFeeds, EndStops, {}, {<<>>})
  \/ RouteChange
  \/ \E t \in timers : Len(ticks) < MaxInFlight /\ TickStart(t)

SpecReload == Init /\ [][NextReload]_vars

\* ----------------------------------------------------------------------
\* SpecSelect: the three selection loops, the three ETA computations and
\* the trail of the vehicle loadData tracks, applied to one polyline, one
\* origin stop, one vehicle list and one answer of the ETA feed, starting
\* from no ETA.  The poll loop runs in an effect whose guard has checked
\* originStop.
InitSelect ==
  /\ InitScreen
  /\ InitSelection
  /\ NoWelcome
  /\ selIn \in [line : Polylines, stop : Stops \cup {NoStop}, vehicles : Candidates,
                arrival : Arrivals \cup {NoArrival, Failed}]
  /\ selOut = NoSelOut
  /\ NoGeo
  /\ NoTl

\* the vehicle loadData tracks for the arguments of SpecSelect
SelectTracked ==
  loadTracked(loadSelect(selIn.line, selIn.stop, selIn.vehicles), selIn.vehicles)

\* the computations that pass the polyline to nearestPointOnLine
SelectProjected ==
  {c \in {"load", "poll", "trail", "nearest", "option"} :
     \/ c = "load" /\ loadProjects(selIn.line, selIn.stop)
     \/ c = "poll" /\ selIn.stop # NoStop /\ pollProjects(selIn.line, selIn.vehicles)
     \/ c = "trail" /\ trailProjects(SelectTracked, selIn.stop, selIn.line)
     \/ c = "nearest" /\ nearestByRouteProjects(selIn.line, selIn.stop)
     \/ c = "option" /\ optionProjects(selIn.line, selIn.stop, selIn.vehicles,
                                        selIn.arrival)}

Select ==
  /\ ~selOut.done
  /\ selOut' = [done |-> TRUE,
                tracked |-> SelectTracked,
                trail |-> trail(SelectTracked, selIn.stop, selIn.line),
                projected |-> SelectProjected,
                load |-> loadSelect(selIn.line, selIn.stop, selIn.vehicles).bestVehicle,
                poll |-> IF selIn.stop = NoStop THEN NoVehicle
                         ELSE pollReselect(selIn.line, selIn.stop, selIn.vehicles),
                nearest |-> nearestByRoute(selIn.line, selIn.stop, selIn.vehicles),
                loadEta |-> loadEta(selIn.arrival,
                                    loadSelect(selIn.line, selIn.stop, selIn.vehicles).bestDist,
                                    NoEta),
                tickEta |-> tickEta(selIn.arrival, NoEta),
                optionEta |-> optionEta(selIn.line, selIn.stop, selIn.vehicles,
                                        selIn.arrival)]
  /\ UNCHANGED <<screenVars, otherScreens, selIn, geoIn, geoOut, tlIn, tlOut>>

NextSelect == Select

SpecSelect == InitSelect /\ [][NextSelect]_vars

\* ----------------------------------------------------------------------
\* SpecGeo: the geometry helpers applied to one polyline of at least two
\* points, the point p projected on its first segment, the points p and q
\* projected on the polyline, and the polyline clipped between two segment
\* indices and between the two projections.
GeoLines == {l \in Polylines : Len(l) >= 2}

InitGeo ==
  /\ InitScreen
  /\ InitSelection
  /\ NoWelcome
  /\ selIn = NoSelIn
  /\ selOut = NoSelOut
  /\ NoTl
  /\ geoIn \in {g \in [line : GeoLines, p : Points, q : Points,
                        fromIdx : 1..(MaxLineLen - 1), toIdx : 1..(MaxLineLen - 1)] :
                   g.fromIdx < Len(g.line) /\ g.toIdx < Len(g.line)}
  /\ geoOut = NoGeoOut

Geo ==
  /\ ~geoOut.done
  /\ LET nearP == nearestPointOnLine(geoIn.line, geoIn.p)
         nearQ == nearestPointOnLine(geoIn.line, geoIn.q)
         projClip == clipLineSegment(geoIn.line, nearP.segIndex, nearP.projPoint,
                                     nearQ.segIndex, nearQ.projPoint)
     IN geoOut' = [done |-> TRUE,
                   seg |-> projectOnSegment(geoIn.p, geoIn.line[1], geoIn.line[2]),
                   nearP |-> nearP,
                   nearQ |-> nearQ,
                   clip |-> clipLineSegment(geoIn.line, geoIn.fromIdx, geoIn.p,
                                            geoIn.toIdx, geoIn.q),
                   projClip |-> projClip,
                   clipLength |-> lineLength(projClip),
                   fullLength |-> lineLength(geoIn.line),
                   trail |-> trail([id |-> 1, pos |-> geoIn.p, seq |-> NoSeq],
                                   [id |-> geoIn.q[2], pos |-> geoIn.q], geoIn.line)]
  /\ UNCHANGED <<screenVars, otherScreens, selIn, selOut, geoIn, tlIn, tlOut>>

NextGeo == Geo

SpecGeo == InitGeo /\ [][NextGeo]_vars

\* ----------------------------------------------------------------------
\* SpecTimeline: visibleTimeline for one timeline and one tracked vehicle
\* (or none), whose current_stop_sequence is a number or null.
Timelines == SeqsUpTo(0..MaxSeq, MaxTimelineLen)
TimelineVehicles == [id : {1}, pos : {Pt(0)}, seq : (0..MaxSeq) \cup {NoSeq}]

InitTimeline ==
  /\ InitScreen
  /\ InitSelection
  /\ NoWelcome
  /\ selIn = NoSelIn
  /\ selOut = NoSelOut
  /\ NoGeo
  /\ tlIn \in [timeline : Timelines, vehicle : TimelineVehicles \cup {NoVehicle}]
  /\ tlOut = NoTlOut

Timeline ==
  /\ ~tlOut.done
  /\ tlOut' = [done |-> TRUE, visible |-> visibleTimeline(tlIn.timeline, tlIn.vehicle)]
  /\ UNCHANGED <<screenVars, otherScreens, selIn, selOut, geoIn, geoOut, tlIn>>

NextTimeline == Timeline

SpecTimeline == InitTimeline /\ [][NextTimeline]_vars

\* ----------------------------------------------------------------------
\* SpecOptions: the shuttle-selection screen (ShuttleSelectionScreen) from
\* mount to unmount: loadData, then the 5 s poll of the listed options.
\* mounted, loading, originStop and lastEvent are those of this screen; the
\* choice of an option and the map are left out.  An option is its route,
\* its vehicles, its etaMinutes (Infinity: none; eta is the same as text)
\* and its polyline.
LastStop == [id |-> MaxLat, pos |-> Pt(MaxLat)]

\* what /api/route, /api/vehicles and /api/eta answer for one route of
\* loadData (ok = FALSE: route or vehicles threw or answered !ok)
OptionAnswers ==
  {a \in [ok : BOOLEAN, routeCoords : RouteShapes, oStop : {NoStop, LastStop},
          vehicles : SingleFeeds, arrival : Arrivals \cup {NoArrival, Failed}] :
     a.ok \/ (/\ a.routeCoords = <<>> /\ a.oStop = NoStop /\ a.vehicles = <<>>
              /\ a.arrival = Failed)}

\* what /api/vehicles answers for one option of a poll tick
TickAnswers == {a \in [ok : BOOLEAN, vehicles : SingleFeeds] : a.ok \/ a.vehicles = <<>>}

\* return { route, vehicles, eta: etaStr, etaMinutes, routeCoords }
makeOption(r, a) ==
  [route |-> r, vehicles |-> a.vehicles,
   etaMinutes |-> optionEta(a.routeCoords, a.oStop, a.vehicles, a.arrival),
   routeCoords |-> a.routeCoords]

\* allOptions.filter((opt) => opt.vehicles.length > 0)
RECURSIVE filterActive(_)
filterActive(opts) ==
  IF opts = <<>>
    THEN <<>>
    ELSE (IF Len(Head(opts).vehicles) > 0 THEN <<Head(opts)>> ELSE <<>>)
         \o filterActive(Tail(opts))

\* a.etaMinutes - b.etaMinutes > 0 (Infinity - Infinity is NaN, taken as 0)
EtaAfter(a, b) == b # Infinity /\ (a = Infinity \/ a > b)

\* o placed in the sorted s, behind the options it does not sort before
RECURSIVE insertByEta(_, _)
insertByEta(s, o) ==
  IF s = <<>> THEN <<o>>
  ELSE IF EtaAfter(Head(s).etaMinutes, o.etaMinutes) THEN <<o>> \o s
  ELSE <<Head(s)>> \o insertByEta(Tail(s), o)

\* .sort((a, b) => a.etaMinutes - b.etaMinutes), a stable sort
RECURSIVE sortByEta(_)
sortByEta(opts) ==
  IF opts = <<>> THEN <<>>
  ELSE insertByEta(sortByEta(SubSeq(opts, 1, Len(opts) - 1)), opts[Len(opts)])

\* the poll effect of the screen, deps [shuttleOptions.length]: after a
\* render with another length the timer is cleared, and set again unless
\* the list is empty
OptionsPollEffect(before, after) ==
  IF Len(after) = Len(before) THEN optionsInterval ELSE Len(after) > 0

DoneOptionsLoad == [pc |-> "done", routes |-> 0]

trackingOnly == <<routeChanges, vehicle, routeCoords, etaMinutes, timeline, load, zombies,
                  timers, effect, ticks>>
pureOnly == <<selIn, selOut, geoIn, geoOut, tlIn, tlOut>>

\* fetch /api/routes-between settles with n routes (ok = FALSE: it threw
\* or answered !ok)
OptionsLoadRoutes(ok, n) ==
  /\ optionsLoad.pc = "routesBetween"
  /\ lastEvent' = [Event("optionsLoadRoutes") EXCEPT !.ok = ok]
  /\ optionsLoad' = IF ok /\ n > 0 THEN [pc |-> "options", routes |-> n]
                    ELSE DoneOptionsLoad
  /\ loading' = IF ok /\ n > 0 THEN loading ELSE setState(loading, FALSE)
  /\ UNCHANGED <<trackingOnly, pureOnly, welcomeVars, mounted, originStop, shuttleOptions,
                 optionsInterval, optionsTicks>>

\* the Promise.all over the routes settles: every route's callback has set
\* the origin stop it found; if one of them threw the list is left alone,
\* otherwise the active options, sorted, are set; then finally runs
OptionsLoadOptions(answers) ==
  /\ optionsLoad.pc = "options"
  /\ LET n == optionsLoad.routes
         ok == \A k \in 1..n : answers[k].ok
         allOptions == [k \in 1..n |-> makeOption(k, answers[k])]
         activeOptions == sortByEta(filterActive(allOptions))
         newOptions == IF ok THEN setState(shuttleOptions, activeOptions)
                       ELSE shuttleOptions
     IN /\ lastEvent' = [Event("optionsLoadOptions") EXCEPT !.ok = ok]
        /\ originStop' = IF \E k \in 1..n : answers[k].ok /\ answers[k].oStop # NoStop
                           THEN setState(originStop, LastStop)
                           ELSE originStop
        /\ shuttleOptions' = newOptions
        /\ optionsInterval' = OptionsPollEffect(shuttleOptions, newOptions)
  /\ loading' = setState(loading, FALSE)
  /\ optionsLoad' = DoneOptionsLoad
  /\ UNCHANGED <<trackingOnly, pureOnly, welcomeVars, mounted, optionsTicks>>

\* the poll timer fires: const current = shuttleOptionsRef.current, and one
\* fetch /api/vehicles per option
OptionsTickStart ==
  /\ optionsInterval
  /\ optionsTicks' = Append(optionsTicks, shuttleOptions)
  /\ lastEvent' = Event("optionsTickStart")
  /\ UNCHANGED <<trackingOnly, pureOnly, welcomeVars, mounted, loading, originStop, shuttleOptions,
                 optionsLoad, optionsInterval>>

\* return { ...opt, vehicles: data.vehicles || [] }, or opt when the request
\* failed
tickOption(opt, a) == IF a.ok THEN [opt EXCEPT !.vehicles = a.vehicles] ELSE opt

\* the Promise.all of tick i settles: setShuttleOptions(updated)
OptionsTickSettle(i, answers) ==
  /\ i \in 1..Len(optionsTicks)
  /\ LET current == optionsTicks[i]
         updated == [k \in 1..Len(current) |-> tickOption(current[k], answers[k])]
         newOptions == setState(shuttleOptions, updated)
     IN /\ lastEvent' = [Event("optionsTickSettle") EXCEPT
                           !.ok = (\A k \in 1..Len(current) : answers[k].ok)]
        /\ shuttleOptions' = newOptions
        /\ optionsInterval' = OptionsPollEffect(shuttleOptions, newOptions)
  /\ optionsTicks' = RemoveAt(optionsTicks, i)
  /\ UNCHANGED <<trackingOnly, pureOnly, welcomeVars, mounted, loading, originStop, optionsLoad>>

\* navigating away: controller.abort() and clearInterval(interval); what is
\* left of loadData sets nothing (signal.aborted)
OptionsUnmount ==
  /\ mounted
  /\ mounted' = FALSE
  /\ lastEvent' = Event("optionsUnmount")
  /\ optionsLoad' = DoneOptionsLoad
  /\ optionsInterval' = FALSE
  /\ UNCHANGED <<trackingOnly, pureOnly, welcomeVars, loading, originStop, shuttleOptions, optionsTicks>>

NextOptions ==
  \/ \E ok \in BOOLEAN, n \in 0..MaxRoutes : (ok \/ n = 0) /\ OptionsLoadRoutes(ok, n)
  \/ \E answers \in [1..optionsLoad.routes -> OptionAnswers] : OptionsLoadOptions(answers)
  \/ Len(optionsTicks) < MaxInFlight /\ OptionsTickStart
  \/ \E i \in 1..Len(optionsTicks) :
       \E answers \in [1..Len(optionsTicks[i]) -> TickAnswers] : OptionsTickSettle(i, answers)
  \/ OptionsUnmount

SpecOptions == Init /\ [][NextOptions]_vars

\* ----------------------------------------------------------------------
\* SpecWelcome: the welcome screen (WelcomeScreen) from mount to the
\* navigation to the shuttle selection: the stops arrive, the rider clicks
\* stop markers and the two cards, and reachability checks run.  mounted
\* and lastEvent are those of this screen.  A stop's name is a number, as
\* is its id; a click is handled together with the render and the effects
\* that follow it, which React finishes before the next event.
StopNames == 1..MaxStops
AllStops == [k \in 1..MaxStops |-> [id |-> k, name |-> k]]

\* a || b for strings
OrElse(a, b) == IF a # NoName THEN a ELSE b

\* useState initializer of selectionMode
initialSelectionMode(stateOrigin, stateDestination, returningFrom, sessionOrigin) ==
  IF /\ returningFrom = "shuttle-selection"
     /\ stateOrigin # NoName
     /\ stateDestination = NoName
    THEN "destination"
  ELSE IF /\ returningFrom = "shuttle-selection"
          /\ stateDestination # NoName
          /\ stateOrigin = NoName
    THEN "origin"
  ELSE IF OrElse(stateOrigin, sessionOrigin) # NoName /\ returningFrom = ""
    THEN "destination"
  ELSE "origin"

\* a checkReachability call: the origin and stops of its render, and
\* whether its controller has been aborted
NewCheck(o, st) == [origin |-> o, stops |-> st, aborted |-> FALSE]

\* the reachability effect, deps [origin, selectionMode, stops]: after a
\* render in which one of them changed, the cleanup aborts the previous
\* check; then the set is cleared, or a check is started for the render's
\* origin and stops.  cur is reachableStopIds with its history.
ReachabilityEffect(depsChanged, o, m, st, cur) ==
  LET aborted == {[c EXCEPT !.aborted = TRUE] : c \in checks}
  IN IF ~depsChanged
       THEN [checks |-> checks, ids |-> cur.ids, origin |-> cur.origin]
     ELSE IF o = NoName \/ m # "destination"
       THEN [checks |-> aborted, ids |-> {}, origin |-> NoName]
     ELSE [checks |-> aborted \cup {NewCheck(o, st)}, ids |-> cur.ids,
           origin |-> cur.origin]

InitWelcome ==
  /\ InitScreen
  /\ InitSelection
  /\ selIn = NoSelIn
  /\ selOut = NoSelOut
  /\ NoGeo
  /\ NoTl
  /\ stops = <<>>
  /\ stopsFetch = TRUE
  /\ \E stateOrigin, stateDestination, sessionOrigin, sessionDestination
          \in StopNames \cup {NoName},
        returningFrom \in {"", "shuttle-selection", "other"} :
       /\ origin = OrElse(stateOrigin, sessionOrigin)
       /\ destination = OrElse(stateDestination, sessionDestination)
       /\ selectionMode = initialSelectionMode(stateOrigin, stateDestination,
                                               returningFrom, sessionOrigin)
  \* location.state and sessionStorage hold a pair chosen on this screen
  /\ ~(origin # NoName /\ origin = destination)
  /\ reachableStopIds = {}
  /\ showUnreachablePopup = FALSE
  /\ unreachableStopName = NoName
  /\ checks = IF origin # NoName /\ selectionMode = "destination"
                THEN {NewCheck(origin, <<>>)}
                ELSE {}
  /\ reachableOrigin = NoName

notWelcome == <<trackingOnly, pureOnly, selectionVars, loading, originStop>>

\* origin, destination, selectionMode and stops become o, d, m and st in
\* one render, and the reachability effect runs
WelcomeRender(o, d, m, st, depsChanged) ==
  LET e == ReachabilityEffect(depsChanged, o, m, st,
                              [ids |-> reachableStopIds, origin |-> reachableOrigin])
  IN /\ origin' = o
     /\ destination' = d
     /\ selectionMode' = m
     /\ stops' = st
     /\ checks' = e.checks
     /\ reachableStopIds' = e.ids
     /\ reachableOrigin' = e.origin

\* fetch /api/all-stops settles: setStops(data.stops || []), a new array
WelcomeStopsLoaded(ok, list) ==
  /\ mounted
  /\ stopsFetch
  /\ stopsFetch' = FALSE
  /\ lastEvent' = [Event("stopsLoaded") EXCEPT !.ok = ok]
  /\ IF ok
       THEN WelcomeRender(origin, destination, selectionMode, list, TRUE)
       ELSE UNCHANGED <<origin, destination, selectionMode, stops, checks,
                        reachableStopIds, reachableOrigin>>
  /\ UNCHANGED <<notWelcome, mounted, showUnreachablePopup, unreachableStopName>>

\* (mutant) the destination's marker has the click handler too
markerOnClickButOrigin(name) == name # origin

\* the marker of a stop is given onClick unless it is drawn as the origin
\* or as the destination
markerOnClick(name) == ~(name = origin) /\ ~(name = destination)

\* isReachable, the marker's interactive
isReachable(stop) ==
  \/ selectionMode = "origin"
  \/ reachableStopIds = {}
  \/ stop.id \in reachableStopIds

\* a click on the marker of stops[k]: handleStopClick(stop).  The marker
\* listens only if it was given onClick and is interactive, so the popup
\* branch is never taken and the popup's close buttons are never shown.
StopClick(k) ==
  /\ mounted
  /\ k \in 1..Len(stops)
  /\ markerOnClick(stops[k].name)
  /\ isReachable(stops[k])
  /\ LET stop == stops[k]
         unreachable == /\ selectionMode # "origin"
                        /\ stop.name # origin
                        /\ reachableStopIds # {}
                        /\ stop.id \notin reachableStopIds
     IN /\ lastEvent' = Event("stopClick")
        /\ IF selectionMode = "origin"
             THEN WelcomeRender(stop.name, destination, "destination", stops,
                                TRUE)
           ELSE IF stop.name = origin \/ unreachable
             THEN UNCHANGED <<origin, destination, selectionMode, stops, checks,
                              reachableStopIds, reachableOrigin>>
           ELSE WelcomeRender(origin, stop.name, selectionMode, stops, FALSE)
        /\ unreachableStopName' = IF unreachable THEN stop.name ELSE unreachableStopName
        /\ showUnreachablePopup' = IF unreachable THEN TRUE ELSE showUnreachablePopup
  /\ UNCHANGED <<notWelcome, mounted, stopsFetch>>

handleOriginCardClick ==
  /\ mounted
  /\ lastEvent' = Event("originCardClick")
  /\ WelcomeRender(NoName, IF origin # NoName THEN NoName ELSE destination, "origin",
                   stops, origin # NoName \/ selectionMode # "origin")
  /\ UNCHANGED <<notWelcome, mounted, stopsFetch, showUnreachablePopup,
                 unreachableStopName>>

\* the card is disabled while there is no origin
handleDestinationCardClick ==
  /\ mounted
  /\ origin # NoName
  /\ lastEvent' = Event("destinationCardClick")
  /\ WelcomeRender(origin, NoName, "destination", stops, selectionMode # "destination")
  /\ UNCHANGED <<notWelcome, mounted, stopsFetch, showUnreachablePopup,
                 unreachableStopName>>

\* (mutant) the result is set without looking at controller.signal.aborted
applyReachableUnguarded(c, cur, reachable) == [ids |-> reachable, origin |-> c.origin]

\* if (!controller.signal.aborted) setReachableStopIds(reachable)
applyReachable(c, cur, reachable) ==
  IF ~c.aborted /\ mounted THEN [ids |-> reachable, origin |-> c.origin] ELSE cur

\* the stops a check asks /api/routes-between about
Asked(c) == {c.stops[k].id : k \in {j \in 1..Len(c.stops) : c.stops[j].name # c.origin}}

\* the Promise.all of check c settles, the routes-between requests having
\* found the stops of reachable (a failed or aborted request adds nothing,
\* one that was answered before the abort has added its stop)
CheckSettles(c, reachable) ==
  /\ c \in checks
  /\ reachable \subseteq Asked(c)
  /\ checks' = checks \ {c}
  /\ lastEvent' = [Event("checkSettles") EXCEPT !.torn = c.aborted]
  /\ LET r == applyReachable(c, [ids |-> reachableStopIds, origin |-> reachableOrigin],
                             reachable)
     IN /\ reachableStopIds' = r.ids
        /\ reachableOrigin' = r.origin
  /\ UNCHANGED <<notWelcome, mounted, stops, stopsFetch, origin, destination, selectionMode,
                 showUnreachablePopup, unreachableStopName>>

\* handleContinue: navigate to the shuttle selection; the screen unmounts
\* and the cleanups abort the pending requests
handleContinue ==
  /\ mounted
  /\ origin # NoName
  /\ destination # NoName
  /\ mounted' = FALSE
  /\ lastEvent' = Event("continue")
  /\ stopsFetch' = FALSE
  /\ checks' = {[c EXCEPT !.aborted = TRUE] : c \in checks}
  /\ UNCHANGED <<notWelcome, stops, origin, destination, selectionMode, reachableStopIds,
                 showUnreachablePopup, unreachableStopName, reachableOrigin>>

NextWelcome ==
  \/ \E ok \in BOOLEAN, list \in {<<>>, AllStops} : (ok \/ list = <<>>) /\ WelcomeStopsLoaded(ok, list)
  \/ \E k \in 1..Len(stops) : StopClick(k)
  \/ handleOriginCardClick
  \/ handleDestinationCardClick
  \/ \E c \in checks : \E reachable \in SUBSET Asked(c) : CheckSettles(c, reachable)
  \/ handleContinue

SpecWelcome == InitWelcome /\ [][NextWelcome]_vars

\* ======================================================================
\* Properties
\* ======================================================================
\* The order of projections and the nearest approaching vehicle, stated
\* from the positions alone.
Proj(line, p) == nearestPointOnLine(line, p)

\* a is strictly ahead of b under (segIndex, then t)
Ahead(a, b) ==
  \/ a.segIndex > b.segIndex
  \/ a.segIndex = b.segIndex /\ TLess(b.t, a.t)

SameProjection(a, b) == a.segIndex = b.segIndex /\ TEq(a.t, b.t)

Approaching(line, stop, v) == ~Ahead(Proj(line, v.pos), Proj(line, stop.pos))

TrailLength(line, stop, v) ==
  LET vp == Proj(line, v.pos)
      sp == Proj(line, stop.pos)
  IN lineLength(clipLineSegment(line, vp.segIndex, vp.projPoint, sp.segIndex, sp.projPoint))

ApproachingIdx(line, stop, vs) ==
  {k \in 1..Len(vs) : Approaching(line, stop, vs[k])}

\* the first of the approaching vehicles with the least trail length
NearestApproaching(line, stop, vs) ==
  LET E == ApproachingIdx(line, stop, vs)
  IN IF stop = NoStop \/ Len(line) < 2 \/ E = {}
       THEN NoVehicle
       ELSE vs[CHOOSE k \in E : \A j \in E :
                 \/ TrailLength(line, stop, vs[k]) < TrailLength(line, stop, vs[j])
                 \/ /\ TrailLength(line, stop, vs[k]) = TrailLength(line, stop, vs[j])
                    /\ k <= j]

SelectRuns == selOut.done /\ selIn.stop # NoStop /\ Len(selIn.line) >= 2

\* C7: a selection loop never selects a vehicle whose projection is strictly
\* ahead of the origin's; it selects none exactly when no vehicle is
\* approaching, so a vehicle with the origin's segIndex and t is eligible.
C7_NeverSelectsAhead ==
  SelectRuns =>
    \A r \in {selOut.load, selOut.poll, selOut.nearest} :
      /\ r # NoVehicle => ~Ahead(Proj(selIn.line, r.pos), Proj(selIn.line, selIn.stop.pos))
      /\ r = NoVehicle <=> ApproachingIdx(selIn.line, selIn.stop, selIn.vehicles) = {}

\* a vehicle level with the origin is selected although another one is ahead
C7_Witness ==
  /\ SelectRuns
  /\ selOut.load # NoVehicle
  /\ selOut.load = selOut.nearest
  /\ SameProjection(Proj(selIn.line, selOut.load.pos), Proj(selIn.line, selIn.stop.pos))
  /\ \E k \in 1..Len(selIn.vehicles) :
       Ahead(Proj(selIn.line, selIn.vehicles[k].pos), Proj(selIn.line, selIn.stop.pos))

\* C8: the loops of loadData and of the poll tick select an approaching
\* vehicle of least trail length, the first in the list among equals.
C8_NearestFirstWins ==
  SelectRuns =>
    /\ selOut.load = NearestApproaching(selIn.line, selIn.stop, selIn.vehicles)
    /\ selOut.poll = NearestApproaching(selIn.line, selIn.stop, selIn.vehicles)

\* two approaching vehicles at different places tie for the least trail
\* length, a third is farther, and the first of the two is selected
C8_Witness ==
  /\ SelectRuns
  /\ \E i, j, k \in 1..Len(selIn.vehicles) :
       /\ i < j
       /\ selOut.load = selIn.vehicles[i]
       /\ selOut.poll = selIn.vehicles[i]
       /\ {i, j, k} \subseteq ApproachingIdx(selIn.line, selIn.stop, selIn.vehicles)
       /\ TrailLength(selIn.line, selIn.stop, selIn.vehicles[i])
            = TrailLength(selIn.line, selIn.stop, selIn.vehicles[j])
       /\ TrailLength(selIn.line, selIn.stop, selIn.vehicles[k])
            > TrailLength(selIn.line, selIn.stop, selIn.vehicles[i])
       /\ selIn.vehicles[i].pos # selIn.vehicles[j].pos

\* ----------------------------------------------------------------------
InFeed(f, id) == \E k \in 1..Len(f) : f[k].id = id
TickKinds == {"tickVehicles", "tickEta"}

\* whole minutes nearest to d seconds (halves upwards), never negative
MinutesUntil(d) ==
  IF d < 30 THEN 0
  ELSE CHOOSE m \in 1..(d \div 60 + 1) : 60 * m - 30 <= d /\ d < 60 * m + 30

\* minutes for len metres at 5.4 m/s (324 m a minute), halves upwards, at
\* least 1
EstimatedMinutes(len) ==
  IF len < 162 THEN 1
  ELSE CHOOSE m \in 1..(len \div 324 + 1) : 324 * m - 162 <= len /\ len < 324 * m + 162

\* C1: on every poll tick whose fresh list has an entry with the tracked
\* vehicle's id, the tracked vehicle becomes exactly that entry.
C1_TrackedIdKept ==
  [][\A i \in 1..Len(ticks), f \in Feeds :
       (/\ lastEvent'.kind = "tickVehicles"
        /\ mounted
        /\ InFeed(f, vehicle.id)
        /\ TickVehicles(i, TRUE, f))
         => \E k \in 1..Len(f) : f[k].id = vehicle.id /\ vehicle' = f[k]]_vars

\* C1 for the callbacks whose effect has not been cleaned up: what is left
\* of the property once the callbacks of C3 are set aside.
C1_LiveTickKeepsTrackedId ==
  [][\A i \in 1..Len(ticks), f \in Feeds :
       (/\ lastEvent'.kind = "tickVehicles"
        /\ mounted
        /\ ~ticks[i].torn
        /\ InFeed(f, vehicle.id)
        /\ TickVehicles(i, TRUE, f))
         => \E k \in 1..Len(f) : f[k].id = vehicle.id /\ vehicle' = f[k]]_vars

\* C2: the response of a tick that a later tick has overtaken changes
\* neither the tracked vehicle nor the ETA.
C2_StaleTickDiscarded ==
  [][(lastEvent'.kind \in TickKinds /\ lastEvent'.stale)
       => (vehicle' = vehicle /\ etaMinutes' = etaMinutes)]_vars

\* C3: the response to a poll request that was in flight when the poll
\* effect was cleaned up changes neither the tracked vehicle nor the ETA.
C3_TornTickDiscarded ==
  [][(lastEvent'.kind \in TickKinds /\ lastEvent'.torn)
       => (vehicle' = vehicle /\ etaMinutes' = etaMinutes)]_vars

\* C4: a tick is started only by the timer of the poll effect that is in
\* place, with that effect's vehicle id and origin stop: a timer whose
\* effect was cleaned up starts none.
C4_ClearedTimerSilent ==
  [][lastEvent'.kind = "tickStart"
       => /\ mounted
          /\ effect # NoHandle
          /\ lastEvent'.handle = effect
          /\ ticks'[Len(ticks')].vid = vehicle.id
          /\ ticks'[Len(ticks')].origin = originStop]_vars

\* a tick starts while a callback of a cleaned-up effect is still waiting
C4_Witness ==
  /\ lastEvent.kind = "tickStart"
  /\ Len(ticks) = 2
  /\ ticks[1].torn
  /\ ~ticks[2].torn

\* C9: wherever an ETA is computed (initial load and poll tick of the
\* tracking screen, option of the shuttle-selection screen) and the ETA feed
\* has an arrival time for the route, the ETA is the whole minutes nearest
\* to the time until that arrival, never below 0, and not the estimate,
\* whether or not a trail length for the estimate is available.
C9_AuthoritativeEta ==
  (selOut.done /\ selIn.arrival \in Arrivals)
    => /\ selOut.tickEta = MinutesUntil(Max(0, selIn.arrival - NowSec))
       /\ selIn.stop # NoStop
            => /\ selOut.loadEta = MinutesUntil(Max(0, selIn.arrival - NowSec))
               /\ selOut.optionEta = MinutesUntil(Max(0, selIn.arrival - NowSec))

\* the feed's arrival is 3 minutes away and is what all three computations
\* give, although a vehicle is approaching and the estimate would be
\* another number
C9_Witness ==
  /\ selOut.done
  /\ selIn.arrival = NowSec + 150
  /\ selIn.stop # NoStop
  /\ Len(selIn.line) >= 2
  /\ NearestApproaching(selIn.line, selIn.stop, selIn.vehicles) # NoVehicle
  /\ EstimatedMinutes(TrailLength(selIn.line, selIn.stop,
        NearestApproaching(selIn.line, selIn.stop, selIn.vehicles))) # 3
  /\ selOut.loadEta = 3
  /\ selOut.tickEta = 3
  /\ selOut.optionEta = 3

\* C9 on the tracking screen: a step of the initial load or of a poll tick
\* that receives an arrival time shows those minutes.
C9_ScreenShowsArrival ==
  [][\A a \in Arrivals :
       (/\ lastEvent'.kind \in {"loadEta", "tickEta"}
        /\ mounted
        /\ (LoadEta(a) \/ \E i \in 1..Len(ticks) : TickEta(i, a)))
         => etaMinutes' = MinutesUntil(Max(0, a - NowSec))]_vars

\* C10: a poll tick of a live, not overtaken callback that finds no arrival
\* for the tracked route while the tracked vehicle is approaching on a
\* usable polyline sets the ETA to the estimate for the current trail.
C10_TickRefreshesEstimate ==
  [][\A i \in 1..Len(ticks) :
       (/\ lastEvent'.kind = "tickEta"
        /\ mounted
        /\ ~ticks[i].torn
        /\ ~ticks[i].superseded
        /\ vehicle # NoVehicle
        /\ originStop # NoStop
        /\ Len(routeCoords) >= 2
        /\ Approaching(routeCoords, originStop, vehicle)
        /\ TickEta(i, NoArrival))
         => etaMinutes' = EstimatedMinutes(TrailLength(routeCoords, originStop, vehicle))]_vars

\* C5: (a) a load that replaces the polyline but leaves the tracked
\* vehicle's id and the origin stop as they were neither clears nor creates
\* a poll timer; (b) a tick that re-selects measures on the polyline current
\* when its response is handled.
C5_PolylineDecoupled ==
  [][/\ lastEvent'.kind = "loadRouteVehicles"
          => \A c \in RouteShapes, f \in SingleFeeds :
               (/\ c # routeCoords
                /\ LoadRouteVehicles(TRUE, c, NoStop, f)
                /\ vehicle'.id = vehicle.id)
                 => (timers' = timers /\ effect' = effect)
     /\ (lastEvent'.kind = "tickVehicles" /\ mounted)
          => \A i \in 1..Len(ticks), f \in SingleFeeds :
               (~InFeed(f, ticks[i].vid) /\ TickVehicles(i, TRUE, f))
                 => vehicle' = IF NearestApproaching(routeCoords, ticks[i].origin, f) # NoVehicle
                               THEN NearestApproaching(routeCoords, ticks[i].origin, f)
                               ELSE vehicle]_vars

\* a tick of the timer in place has just re-selected a vehicle on a polyline
\* that had been replaced since the timer was created
C5_Witness ==
  /\ lastEvent.kind = "tickVehicles"
  /\ lastEvent.picked
  /\ lastEvent.moved
  /\ ~lastEvent.torn
  /\ ~lastEvent.stale

\* C6: on a poll tick whose fresh list has no entry with the tracked
\* vehicle's id, while the origin stop is known, the polyline has at least 2
\* points and some fresh vehicle is approaching, the tracked vehicle becomes
\* the approaching vehicle nearest along the route.
C6_AbsentReselects ==
  [][\A i \in 1..Len(ticks), f \in SingleFeeds :
       (/\ lastEvent'.kind = "tickVehicles"
        /\ mounted
        /\ vehicle # NoVehicle
        /\ ~InFeed(f, vehicle.id)
        /\ originStop # NoStop
        /\ Len(routeCoords) >= 2
        /\ ApproachingIdx(routeCoords, originStop, f) # {}
        /\ TickVehicles(i, TRUE, f))
         => vehicle' = NearestApproaching(routeCoords, originStop, f)]_vars

\* C6 for the callbacks whose effect has not been cleaned up: what is left
\* of the property once the callbacks of C3 are set aside.
C6_LiveTickReselects ==
  [][(lastEvent'.kind = "tickVehicles" /\ mounted)
       => \A i \in 1..Len(ticks), f \in Feeds :
            (/\ ~ticks[i].torn
             /\ vehicle # NoVehicle
             /\ ~InFeed(f, vehicle.id)
             /\ originStop # NoStop
             /\ Len(routeCoords) >= 2
             /\ ApproachingIdx(routeCoords, originStop, f) # {}
             /\ TickVehicles(i, TRUE, f))
              => vehicle' = NearestApproaching(routeCoords, originStop, f)]_vars

\* C11: the ETA of the tracking screen is always absent or a natural number;
\* a step that shows the feed's arrival shows at least 0 (also for an
\* arrival in the past), and a step that shows the distance/speed estimate
\* shows at least 1 (also for a trail of length 0).
C11_EtaRange ==
  [][/\ etaMinutes' = NoEta \/ etaMinutes' \in Nat
     /\ (lastEvent'.kind \in {"loadEta", "tickEta"} /\ lastEvent'.hasArrival /\ mounted)
          => etaMinutes' >= 0
     /\ (/\ lastEvent'.kind \in {"loadEta", "abortedLoad"}
         /\ ~lastEvent'.hasArrival
         /\ etaMinutes' # etaMinutes)
          => etaMinutes' >= 1]_vars

\* the initial load has just shown the estimate for a tracked vehicle whose
\* trail to the origin stop has length 0
C11_Witness ==
  /\ lastEvent.kind = "loadEta"
  /\ ~lastEvent.hasArrival
  /\ vehicle # NoVehicle
  /\ originStop # NoStop
  /\ Len(routeCoords) >= 2
  /\ Approaching(routeCoords, originStop, vehicle)
  /\ TrailLength(routeCoords, originStop, vehicle) = 0
  /\ etaMinutes = 1

\* C11 for the three ETA computations, the option of the shuttle-selection
\* screen included: each gives nothing or a natural number, at least 0 from
\* the feed's arrival and at least 1 from the estimate.
C11_ComputedEtaRange ==
  selOut.done
    => /\ selOut.loadEta = NoEta \/ selOut.loadEta \in Nat
       /\ selOut.tickEta = NoEta \/ selOut.tickEta \in Nat
       /\ selOut.optionEta = Infinity \/ selOut.optionEta \in Nat
       /\ selIn.arrival \in Arrivals
            => /\ selOut.tickEta >= 0
               /\ selIn.stop # NoStop => (selOut.loadEta >= 0 /\ selOut.optionEta >= 0)
       /\ selIn.arrival \notin Arrivals
            => /\ selOut.loadEta # NoEta => selOut.loadEta >= 1
               /\ selOut.optionEta # Infinity => selOut.optionEta >= 1

\* C12: the step in which the pending request of a cancelled loadData
\* settles changes none of route polyline, origin stop, tracked vehicle,
\* ETA and timeline, whichever request was pending.
C12_CancelledLoadSilent ==
  [][lastEvent'.kind = "abortedLoad"
       => UNCHANGED <<routeCoords, originStop, vehicle, etaMinutes, timeline>>]_vars

\* C13: in the initial load, a failed ETA request leaves the tracked vehicle
\* in place, shows the estimate when the selection loop found a vehicle and
\* leaves the ETA as it was otherwise, and the load goes on to the timeline
\* (or ends); a failed timeline request leaves the timeline empty; either
\* way the load ends with loading switched off.
C13_LoadDegradesSilently ==
  [][/\ (lastEvent'.kind = "loadEta" /\ ~lastEvent'.ok /\ mounted)
          => /\ vehicle' = vehicle
             /\ load.hasBestVehicle => vehicle' # NoVehicle
             /\ etaMinutes' = IF load.bestDist # Infinity
                                THEN EstimatedMinutes(load.bestDist)
                                ELSE etaMinutes
             /\ load'.pc = IF load.hasBestVehicle THEN "timeline" ELSE "done"
             /\ load'.pc = "done" => ~loading'
     /\ (lastEvent'.kind = "loadTimeline" /\ ~lastEvent'.ok /\ mounted)
          => /\ timeline' = <<>>
             /\ load'.pc = "done"
             /\ ~loading']_vars

\* the ETA request of the initial load has just failed: the vehicle is
\* tracked, the estimate is shown and the load awaits the timeline
C13_Witness ==
  /\ mounted
  /\ lastEvent.kind = "loadEta"
  /\ ~lastEvent.ok
  /\ vehicle # NoVehicle
  /\ etaMinutes = 1
  /\ load.pc = "timeline"
  /\ loading

\* ----------------------------------------------------------------------
\* Geometry, stated from the points alone.
\* p lies on the segment [a, b]
OnSegment(p, a, b) ==
  LET dx == b[1] - a[1]
      dy == b[2] - a[2]
      px == p[1] - a[1]
      py == p[2] - a[2]
  IN /\ a = b => p = a
     /\ px * dy = py * dx
     /\ 0 <= px * dx + py * dy
     /\ px * dx + py * dy <= dx * dx + dy * dy

\* the parameter of a point p of the segment [a, b] (0 when a = b)
ParamOn(p, a, b) ==
  IF a = b THEN <<0, 1>>
  ELSE <<(p[1] - a[1]) * (b[1] - a[1]) + (p[2] - a[2]) * (b[2] - a[2]),
         (b[1] - a[1]) * (b[1] - a[1]) + (b[2] - a[2]) * (b[2] - a[2])>>

Segments(line) == 1..(Len(line) - 1)

\* C14 as stated: the trail clipped between two projections is empty
\* whenever the first is strictly ahead of the second, equal segIndex with
\* the greater t included.
C14_ClipEmptyWhenAhead ==
  (geoOut.done /\ Ahead(geoOut.nearP, geoOut.nearQ)) => geoOut.projClip = <<>>

\* C14, amended: clipLineSegment is empty when the first projection's
\* segIndex is greater; for equal segIndex and greater t it returns the two
\* projected points, and the trail of the tracking screen is null in both
\* cases because the screen compares the projections before clipping.
C14_TrailNullWhenAhead ==
  geoOut.done
    => /\ geoOut.nearP.segIndex > geoOut.nearQ.segIndex => geoOut.projClip = <<>>
       /\ (/\ geoOut.nearP.segIndex = geoOut.nearQ.segIndex
           /\ TLess(geoOut.nearQ.t, geoOut.nearP.t))
            => geoOut.projClip = <<geoOut.nearP.projPoint, geoOut.nearQ.projPoint>>
       /\ Ahead(geoOut.nearP, geoOut.nearQ) => geoOut.trail = NoTrail

\* both projections are on the same segment, the first further along
C14_Witness ==
  /\ geoOut.done
  /\ geoOut.nearP.segIndex = geoOut.nearQ.segIndex
  /\ TLess(geoOut.nearQ.t, geoOut.nearP.t)
  /\ Len(geoOut.projClip) = 2
  /\ geoOut.trail = NoTrail

\* C15: clipLineSegment is empty exactly when fromIdx > toIdx; otherwise it
\* is fromPoint, the vertices after vertex fromIdx up to vertex toIdx in
\* order, then toPoint: toIdx - fromIdx + 2 points, so never exactly one.
C15_ClipShape ==
  geoOut.done
    => LET r == geoOut.clip
           n == geoIn.toIdx - geoIn.fromIdx
       IN /\ r = <<>> <=> geoIn.fromIdx > geoIn.toIdx
          /\ Len(r) # 1
          /\ geoIn.fromIdx <= geoIn.toIdx
               => /\ Len(r) = n + 2
                  /\ r[1] = geoIn.p
                  /\ r[n + 2] = geoIn.q
                  /\ \A k \in 1..n : r[k + 1] = geoIn.line[geoIn.fromIdx + k]

\* a clip across a vertex, and one within a single segment exists as well
C15_Witness ==
  /\ geoOut.done
  /\ geoIn.fromIdx < geoIn.toIdx
  /\ Len(geoOut.clip) = 3
  /\ geoOut.clip[2] = geoIn.line[2]
  /\ geoIn.line[2] # geoIn.p
  /\ geoIn.line[2] # geoIn.q

\* C16: with the first projection's segIndex not greater than the second's,
\* the clipped trail is not longer than the polyline.
C16_ClipNotLonger ==
  (geoOut.done /\ geoOut.nearP.segIndex <= geoOut.nearQ.segIndex)
    => geoOut.clipLength <= geoOut.fullLength

\* a trail across a vertex, shorter than the polyline
C16_Witness ==
  /\ geoOut.done
  /\ geoOut.nearP.segIndex < geoOut.nearQ.segIndex
  /\ geoOut.clipLength > 0
  /\ geoOut.clipLength < geoOut.fullLength

\* C17: projectOnSegment gives 0 <= t <= 1 and a point of the segment, and
\* t = 0 with the point a when a = b; nearestPointOnLine on a polyline of n
\* >= 2 points gives 0 <= t <= 1 and the index of one of its n - 1 segments.
C17_ProjectionClamped ==
  geoOut.done
    => /\ geoOut.seg.t[2] > 0
       /\ 0 <= geoOut.seg.t[1]
       /\ geoOut.seg.t[1] <= geoOut.seg.t[2]
       /\ OnSegment(geoOut.seg.point, geoIn.line[1], geoIn.line[2])
       /\ geoIn.line[1] = geoIn.line[2] => (geoOut.seg.t[1] = 0 /\ geoOut.seg.point = geoIn.line[1])
       /\ geoOut.nearP.t[2] > 0
       /\ 0 <= geoOut.nearP.t[1]
       /\ geoOut.nearP.t[1] <= geoOut.nearP.t[2]
       /\ geoOut.nearP.segIndex \in Segments(geoIn.line)

\* p lies beyond the end b of the segment (a, b): the projection is b, t = 1
C17_Witness ==
  /\ geoOut.done
  /\ geoIn.line[1] # geoIn.line[2]
  /\ ~OnSegment(geoIn.p, geoIn.line[1], geoIn.line[2])
  /\ geoOut.seg.point = geoIn.line[2]
  /\ geoOut.seg.t[1] = geoOut.seg.t[2]

\* distance from p to its projection on segment i of the polyline
SegDist(line, p, i) ==
  haversineDistance(p, projectOnSegment(p, line[i], line[i + 1]).point)

\* the first of the segments nearest to p
NearestSeg(line, p) ==
  CHOOSE i \in Segments(line) :
    \A j \in Segments(line) :
      \/ SegDist(line, p, i) < SegDist(line, p, j)
      \/ SegDist(line, p, i) = SegDist(line, p, j) /\ i <= j

\* C18: nearestPointOnLine returns the projection on the segment nearest to
\* the point, and of several nearest segments the one of lowest index.
C18_NearestFirstSegment ==
  geoOut.done
    => LET i == NearestSeg(geoIn.line, geoIn.p)
           pr == projectOnSegment(geoIn.p, geoIn.line[i], geoIn.line[i + 1])
       IN /\ geoOut.nearP.segIndex = i
          /\ geoOut.nearP.dist = SegDist(geoIn.line, geoIn.p, i)
          /\ geoOut.nearP.projPoint = pr.point
          /\ TEq(geoOut.nearP.t, pr.t)

\* two segments are equally near, not at distance 0, and the first is returned
C18_Witness ==
  /\ geoOut.done
  /\ Len(geoIn.line) = 3
  /\ SegDist(geoIn.line, geoIn.p, 1) = SegDist(geoIn.line, geoIn.p, 2)
  /\ geoOut.nearP.dist > 0
  /\ geoOut.nearP.segIndex = 1

\* C19 as stated: for a point p on segment k at parameter t0, the start
\* vertex shared with segment k - 1 included, nearestPointOnLine returns
\* segIndex k, t = t0 and distance 0.
C19_OnSegmentFound ==
  geoOut.done
    => \A k \in Segments(geoIn.line) :
         OnSegment(geoIn.p, geoIn.line[k], geoIn.line[k + 1])
           => /\ geoOut.nearP.segIndex = k
              /\ TEq(geoOut.nearP.t, ParamOn(geoIn.p, geoIn.line[k], geoIn.line[k + 1]))
              /\ geoOut.nearP.dist = 0

\* C19, amended: for a point p on some segment, nearestPointOnLine returns
\* the lowest-index segment that p lies on, p's parameter on that segment
\* and distance 0 (for a vertex shared by segments k - 1 and k: k - 1, t = 1).
C19_FirstSegmentFound ==
  (geoOut.done /\ \E k \in Segments(geoIn.line) :
                    OnSegment(geoIn.p, geoIn.line[k], geoIn.line[k + 1]))
    => LET k == CHOOSE i \in Segments(geoIn.line) :
                  /\ OnSegment(geoIn.p, geoIn.line[i], geoIn.line[i + 1])
                  /\ \A j \in 1..(i - 1) :
                       ~OnSegment(geoIn.p, geoIn.line[j], geoIn.line[j + 1])
       IN /\ geoOut.nearP.segIndex = k
          /\ TEq(geoOut.nearP.t, ParamOn(geoIn.p, geoIn.line[k], geoIn.line[k + 1]))
          /\ geoOut.nearP.projPoint = geoIn.p
          /\ geoOut.nearP.dist = 0

\* p is the vertex shared by two segments of positive length: the first of
\* the two is returned, with t = 1
C19_Witness ==
  /\ geoOut.done
  /\ Len(geoIn.line) = 3
  /\ geoIn.line[1] # geoIn.line[2]
  /\ geoIn.line[2] # geoIn.line[3]
  /\ geoIn.p = geoIn.line[2]
  /\ geoOut.nearP.segIndex = 1
  /\ geoOut.nearP.t[1] = geoOut.nearP.t[2]
  /\ geoOut.nearP.dist = 0

\* the positions of tl whose stop is at or after sequence number n
Kept(tl, n) == {k \in 1..Len(tl) : tl[k] >= n}

\* r lists exactly the entries of tl at the positions K, in their order
IsSubsequenceAt(r, tl, K) ==
  /\ Len(r) = Cardinality(K)
  /\ \E f \in [1..Len(r) -> 1..Len(tl)] :
       /\ {f[i] : i \in 1..Len(r)} = K
       /\ \A i, j \in 1..Len(r) : i < j => f[i] < f[j]
       /\ \A i \in 1..Len(r) : r[i] = tl[f[i]]

\* C20: the visible timeline is the whole timeline when there is no vehicle
\* or the vehicle has no current stop sequence; otherwise it is the entries
\* with stop_sequence >= the vehicle's current stop sequence (0 counts as a
\* sequence), in their original order.
C20_VisibleTimeline ==
  tlOut.done
    => IF tlIn.vehicle = NoVehicle \/ tlIn.vehicle.seq = NoSeq
         THEN tlOut.visible = tlIn.timeline
         ELSE IsSubsequenceAt(tlOut.visible, tlIn.timeline,
                              Kept(tlIn.timeline, tlIn.vehicle.seq))

\* an unordered timeline of which the first and the last stop remain, the
\* last being the vehicle's current stop
C20_Witness ==
  /\ tlOut.done
  /\ tlIn.vehicle # NoVehicle
  /\ tlIn.vehicle.seq = 1
  /\ tlIn.timeline = <<2, 0, 1>>
  /\ tlOut.visible = <<2, 1>>

\* ----------------------------------------------------------------------
\* C21: nearestPointOnLine is handed a polyline only when it has at least 2
\* points; on a shorter polyline the selection loop of loadData, the
\* re-selection of the poll tick, the nearest vehicle and the estimate of a
\* shuttle option and the trail all give no result.
C21_ShortPolylineNoResult ==
  selOut.done
    => /\ selOut.projected # {} => Len(selIn.line) >= 2
       /\ Len(selIn.line) < 2
            => /\ selOut.load = NoVehicle
               /\ selOut.poll = NoVehicle
               /\ selOut.nearest = NoVehicle
               /\ selOut.trail = NoTrail
               /\ selIn.arrival \notin Arrivals => selOut.optionEta = Infinity

\* a polyline of one point with the origin stop known and vehicles reported:
\* nothing is projected, and the vehicle tracked by the fallback has no trail
C21_Witness ==
  /\ selOut.done
  /\ Len(selIn.line) = 1
  /\ selIn.stop # NoStop
  /\ Len(selIn.vehicles) > 0
  /\ selOut.projected = {}
  /\ selOut.tracked = selIn.vehicles[1]
  /\ selOut.trail = NoTrail

\* C21 on the tracking screen: while the polyline of the screen has fewer
\* than 2 points no trail is shown and no poll tick re-selects.
C21_ScreenShortPolyline ==
  Len(routeCoords) < 2
    => /\ ~trailProjects(vehicle, originStop, routeCoords)
       /\ trail(vehicle, originStop, routeCoords) = NoTrail
       /\ lastEvent.kind = "tickVehicles" => ~lastEvent.picked


\* C22: in the initial load, when the ETA feed has no arrival time for the
\* route (or the request fails) and no vehicle is approaching the origin
\* stop, no ETA is set: it stays absent, also when the first vehicle of the
\* list is tracked by the fallback.
C22_NoSourceNoEta ==
  (/\ selOut.done
   /\ selIn.arrival \notin Arrivals
   /\ NearestApproaching(selIn.line, selIn.stop, selIn.vehicles) = NoVehicle)
    => selOut.loadEta = NoEta

\* every reported vehicle has passed the origin stop, the first one is
\* tracked, the feed has no arrival, and there is no ETA
C22_Witness ==
  /\ selOut.done
  /\ selIn.arrival = NoArrival
  /\ selIn.stop # NoStop
  /\ Len(selIn.line) >= 2
  /\ Len(selIn.vehicles) >= 2
  /\ ApproachingIdx(selIn.line, selIn.stop, selIn.vehicles) = {}
  /\ selOut.tracked = selIn.vehicles[1]
  /\ selOut.loadEta = NoEta

\* C22 on the tracking screen: the ETA step of a load whose selection loop
\* found no vehicle, answered without an arrival time, leaves the ETA as it
\* was.
C22_ScreenEtaUntouched ==
  [][(/\ lastEvent'.kind = "loadEta"
      /\ ~lastEvent'.hasArrival
      /\ load.bestDist = Infinity)
       => etaMinutes' = etaMinutes]_vars


\* C23: the step in which the vehicle request of a poll tick fails changes
\* neither the tracked vehicle nor the ETA, ends the callback without an ETA
\* request, and leaves the timers as they are: the other pending callbacks
\* and the poll timer are all that remains.
C23_FailedTickKeepsState ==
  [][(lastEvent'.kind = "tickVehicles" /\ ~lastEvent'.ok)
       => /\ vehicle' = vehicle
          /\ etaMinutes' = etaMinutes
          /\ timers' = timers
          /\ effect' = effect
          /\ \E i \in 1..Len(ticks) :
               ticks[i].phase = "vehicles" /\ ticks' = RemoveAt(ticks, i)]_vars

\* the vehicle request of a tick has just failed on a screen that shows a
\* vehicle and an ETA: no callback is waiting and the poll timer is in place
C23_Witness ==
  /\ mounted
  /\ lastEvent.kind = "tickVehicles"
  /\ ~lastEvent.ok
  /\ vehicle # NoVehicle
  /\ etaMinutes # NoEta
  /\ ticks = <<>>
  /\ effect # NoHandle
  /\ \E t \in timers : t.handle = effect


\* C24: when loadData is given a non-empty vehicle list of which no vehicle
\* is approaching the origin stop (or none can be projected), it tracks the
\* first vehicle of the list; when that vehicle's projection is ahead of the
\* origin's, the trail of the screen is null.
C24_FallbackFirstVehicle ==
  (/\ selOut.done
   /\ Len(selIn.vehicles) > 0
   /\ NearestApproaching(selIn.line, selIn.stop, selIn.vehicles) = NoVehicle)
    => /\ selOut.tracked = selIn.vehicles[1]
       /\ SelectRuns
            => /\ Ahead(Proj(selIn.line, selOut.tracked.pos), Proj(selIn.line, selIn.stop.pos))
               /\ selOut.trail = NoTrail

\* two vehicles at different places have both passed the origin stop on a
\* usable polyline: the first is tracked, without a trail
C24_Witness ==
  /\ selOut.done
  /\ SelectRuns
  /\ Len(selIn.vehicles) = 2
  /\ selIn.vehicles[1].pos # selIn.vehicles[2].pos
  /\ selOut.load = NoVehicle
  /\ selOut.tracked = selIn.vehicles[1]
  /\ Ahead(Proj(selIn.line, selOut.tracked.pos), Proj(selIn.line, selIn.stop.pos))
  /\ selOut.trail = NoTrail

\* C24 on the tracking screen: the step of loadData that sets the vehicle.
C24_ScreenTracksFirst ==
  [][lastEvent'.kind = "loadRouteVehicles"
       => \A c \in RouteShapes, o \in Stops \cup {NoStop}, f \in Feeds :
            (/\ mounted
             /\ Len(f) > 0
             /\ NearestApproaching(c, o, f) = NoVehicle
             /\ LoadRouteVehicles(TRUE, c, o, f))
              => /\ vehicle' = f[1]
                 /\ trail(vehicle', originStop', routeCoords') = NoTrail]_vars


\* ----------------------------------------------------------------------
\* C25: every option of the list the shuttle-selection screen displays has
\* at least one vehicle, after loadData and after any number of poll ticks.
C25_OptionsHaveVehicles ==
  \A k \in 1..Len(shuttleOptions) : Len(shuttleOptions[k].vehicles) > 0


\* ----------------------------------------------------------------------
\* C26: no poll tick sets a tracked vehicle to none, and a tick whose fresh
\* list has neither an entry with the tracked vehicle's id nor an
\* approaching vehicle (the list may be empty, the polyline shorter than 2
\* points) leaves the tracked vehicle as it was.
C26_TickKeepsVehicle ==
  [][(lastEvent'.kind = "tickVehicles" /\ mounted /\ vehicle # NoVehicle)
       => /\ vehicle' # NoVehicle
          /\ \A i \in 1..Len(ticks), f \in Feeds :
               (/\ ~InFeed(f, vehicle.id)
                /\ NearestApproaching(routeCoords, originStop, f) = NoVehicle
                /\ TickVehicles(i, TRUE, f))
                 => vehicle' = vehicle]_vars

\* C26 for the callbacks whose effect has not been cleaned up: what is left
\* of the property once the callbacks of C3 are set aside.
C26_LiveTickKeepsVehicle ==
  [][(lastEvent'.kind = "tickVehicles" /\ mounted /\ vehicle # NoVehicle)
       => /\ vehicle' # NoVehicle
          /\ \A i \in 1..Len(ticks), f \in Feeds :
               (/\ ~ticks[i].torn
                /\ ~InFeed(f, vehicle.id)
                /\ NearestApproaching(routeCoords, originStop, f) = NoVehicle
                /\ TickVehicles(i, TRUE, f))
                 => vehicle' = vehicle]_vars

\* a live tick found neither the tracked id nor an approaching vehicle in a
\* non-empty list, and the vehicle is still tracked
C26_KeptWitness ==
  /\ mounted
  /\ lastEvent.kind = "tickVehicles"
  /\ lastEvent.ok
  /\ ~lastEvent.same
  /\ ~lastEvent.picked
  /\ ~lastEvent.torn
  /\ vehicle # NoVehicle


\* ----------------------------------------------------------------------
\* C27: the tracking screen has at most one poll timer; a timer exists only
\* while the screen is mounted with a tracked vehicle and an origin stop,
\* and it is the timer of the poll effect in place, created for the tracked
\* vehicle's id and the origin stop of the state: the timer of an earlier
\* id or origin stop has been cleared.
C27_OneInterval ==
  /\ Cardinality(timers) <= 1
  /\ timers # {} => (mounted /\ vehicle # NoVehicle /\ originStop # NoStop)
  /\ \A t \in timers : t.handle = effect /\ t.vid = vehicle.id /\ t.origin = originStop

\* a tick has just re-selected a vehicle with another id: the effect ran
\* again, and its timer is the only one
C27_Witness ==
  /\ mounted
  /\ lastEvent.kind = "tickVehicles"
  /\ lastEvent.picked
  /\ effect = 1
  /\ timers = {[handle |-> 1, vid |-> vehicle.id, origin |-> originStop,
                coords |-> routeCoords]}


C29_OriginNotDestination == ~(origin # NoName /\ origin = destination)

\* a marker click in origin selection has set the origin while a
\* destination was already set
C29_Witness ==
  /\ lastEvent.kind = "stopClick"
  /\ selectionMode = "destination"
  /\ origin # NoName
  /\ destination # NoName
  /\ origin # destination
  /\ checks # {}

\* ----------------------------------------------------------------------
\* C30: on the welcome screen a non-empty reachable-stop set was computed
\* for the current origin in destination selection; the set is empty when
\* no origin is selected or the mode is not destination selection; and a
\* check whose effect has been cleaned up never changes the set.
C30_ReachableIsCurrent ==
  /\ [](/\ reachableStopIds # {} => /\ origin # NoName
                                    /\ selectionMode = "destination"
                                    /\ reachableOrigin = origin
        /\ (origin = NoName \/ selectionMode # "destination") => reachableStopIds = {})
  /\ [][(lastEvent'.kind = "checkSettles" /\ lastEvent'.torn)
          => reachableStopIds' = reachableStopIds]_vars

\* a cleaned-up check has settled while the set of the current origin is
\* shown
C30_Witness ==
  /\ lastEvent.kind = "checkSettles"
  /\ lastEvent.torn
  /\ reachableStopIds # {}
  /\ reachableOrigin = origin
  /\ selectionMode = "destination"


====
